---- MODULE Spec2Model ----
(***************************************************************************)
(* Verification model of code-insight: the index manager                   *)
(* (src/src/indexer/mod.rs), the query engine (src/src/query/mod.rs) and   *)
(* the data types they exchange (src/src/types.rs).                        *)
(*                                                                         *)
(* Text is modelled at character level: a Rust String is a sequence of     *)
(* one-character strings, so that join/split_whitespace, the index         *)
(* tokenizer and substring tests are computed, not assumed.                *)
(***************************************************************************)
EXTENDS Naturals, Integers, Sequences, FiniteSets, TLC

VARIABLES
    \* ---- IndexManager (src/src/indexer/mod.rs:17-22) ----
    committed,    \* documents published by the last commit (the index on disk)
    pending,      \* documents added to the IndexWriter and not yet committed
    pendingDel,   \* delete_term operations not yet committed
    loaded,       \* the Searcher the IndexReader currently hands out
    writerLock,   \* holder of `writer: Arc<RwLock<IndexWriter>>`, or NoTask
    calls,        \* number of write calls started so far (opstamp source)
    wtask,        \* per writer task: the write call it is executing
    log,          \* ghost: the finished write calls and their outcome, in order
    lastWrite,    \* ghost: the index before and after the last finished write call
    rtask,        \* per reader task: the IndexManager::search / stats call
    reads,        \* number of read calls started so far
    \* ---- QueryEngine (src/src/query/mod.rs:10-13) ----
    cache,        \* cache: RwLock<HashMap<String, Vec<SearchResult>>>
    qtask,        \* per engine task: the QueryEngine::search call
    searches,     \* number of engine calls started so far
    qlog,         \* ghost: per (kind, query string), the call whose insert is cached
    qlast,        \* ghost: the last engine call that returned, with what it returned
    \* ---- document round trip (create_document / create_declaration_from_doc)
    dDecl,        \* the Declaration handed to create_document
    dDoc,         \* the TantivyDocument built from it
    dBack,        \* the Declaration rebuilt by create_declaration_from_doc
    dpc,          \* position in the round trip
    \* ---- QueryEngine::get_statistics (src/src/query/mod.rs:172-189) ----
    stat,         \* the get_statistics call: its position and what it has read
    \* ---- the parsers (src/src/parser/java.rs, java_structure.rs) ----
    parse,        \* a source file on its way through the parsers and the index
    \* ---- AsyncProcessor (src/src/async/mod.rs:15-19) ----
    batch,        \* one process_project_async / process_with_backpressure call
    \* ---- GraphBuilder, GraphVisualizer (src/src/graph) ----
    graph         \* a graph under construction and what was computed from it

idxVars == <<committed, pending, pendingDel, loaded, writerLock, calls, wtask, log,
             lastWrite, rtask, reads>>
qVars   == <<cache, qtask, searches, qlog, qlast>>
docVars == <<dDecl, dDoc, dBack, dpc>>
statVars == <<stat>>
parseVars == <<parse>>
batchVars == <<batch>>
graphVars == <<graph>>
vars    == <<idxVars, qVars, docVars, statVars, parseVars, batchVars, graphVars>>

(***************************************************************************)
(* Strings                                                                 *)
(***************************************************************************)
Uppers == <<"A","B","C","D","E","F","G","H","I","J","K","L","M",
            "N","O","P","Q","R","S","T","U","V","W","X","Y","Z">>
Lowers == <<"a","b","c","d","e","f","g","h","i","j","k","l","m",
            "n","o","p","q","r","s","t","u","v","w","x","y","z">>
Digits == <<"0","1","2","3","4","5","6","7","8","9">>

\* Characters in ASCII order, for String::cmp.
Ascii == <<" ", "$", ".", "/">> \o Digits \o <<"<", ">", "@">> \o Uppers
         \o <<"_">> \o Lowers

RangeOf(s) == {s[i] : i \in 1..Len(s)}

CharCode(c) == CHOOSE i \in 1..Len(Ascii) : Ascii[i] = c

IsSpace(c) == c = " "

IsAlnum(c) == c \in RangeOf(Uppers) \cup RangeOf(Lowers) \cup RangeOf(Digits)

ToLower(c) ==
    IF c \in RangeOf(Uppers)
    THEN Lowers[CHOOSE i \in 1..Len(Uppers) : Uppers[i] = c]
    ELSE c

LowerStr(s) == [i \in 1..Len(s) |-> ToLower(s[i])]

\* a.cmp(b) /= Greater on Strings (lexicographic on bytes).
RECURSIVE StrLeq(_, _)
StrLeq(a, b) ==
    IF a = <<>> THEN TRUE
    ELSE IF b = <<>> THEN FALSE
    ELSE IF Head(a) = Head(b) THEN StrLeq(Tail(a), Tail(b))
    ELSE CharCode(Head(a)) < CharCode(Head(b))

\* list.join(sep)
RECURSIVE Join(_, _)
Join(list, sep) ==
    IF list = <<>> THEN <<>>
    ELSE IF Len(list) = 1 THEN list[1]
    ELSE list[1] \o sep \o Join(Tail(list), sep)

\* Maximal runs of characters that are not separators. mode "ws": separators are
\* whitespace (str::split_whitespace); mode "alnum": separators are the
\* non-alphanumeric characters (the index's default tokenizer); mode "path":
\* the separator is "/" (Path::components).
IsSep(mode, c) ==
    IF mode = "ws" THEN IsSpace(c)
    ELSE IF mode = "path" THEN c = "/"
    ELSE ~IsAlnum(c)

RECURSIVE SplitRuns(_, _, _)
SplitRuns(s, cur, mode) ==
    IF s = <<>> THEN (IF cur = <<>> THEN <<>> ELSE <<cur>>)
    ELSE IF IsSep(mode, Head(s))
         THEN (IF cur = <<>> THEN <<>> ELSE <<cur>>) \o SplitRuns(Tail(s), <<>>, mode)
         ELSE SplitRuns(Tail(s), Append(cur, Head(s)), mode)

\* s.split_whitespace().map(String::from).collect()
SplitWhitespace(s) == SplitRuns(s, <<>>, "ws")

\* a.cmp(b) /= Greater on PathBuf: the paths' components compared in order, the
\* root of an absolute path (written as the empty component) before any name.
PathComponents(p) ==
    (IF p # <<>> /\ Head(p) = "/" THEN <<<<>>>> ELSE <<>>) \o SplitRuns(p, <<>>, "path")

RECURSIVE ComponentsLeq(_, _)
ComponentsLeq(a, b) ==
    IF a = <<>> THEN TRUE
    ELSE IF b = <<>> THEN FALSE
    ELSE IF Head(a) = Head(b) THEN ComponentsLeq(Tail(a), Tail(b))
    ELSE StrLeq(Head(a), Head(b))

PathLeq(a, b) == ComponentsLeq(PathComponents(a), PathComponents(b))

\* haystack.contains(needle)
Contains(s, sub) ==
    \E i \in 0..(Len(s) - Len(sub)) : SubSeq(s, i + 1, i + Len(sub)) = sub

Sp == <<" ">>

\* Option<T>: None is the empty sequence, Some(x) the one-element sequence.
None == <<>>
Some(x) == <<x>>
IsSome(o) == o # <<>>

(***************************************************************************)
(* Types (src/src/types.rs) and the words used as test data                *)
(***************************************************************************)
DeclarationKinds == {"Class", "Interface", "Enum", "Record", "Annotation"}

\* format!("{:?}", kind) for DeclarationKind and SearchKind: the variant's name.
DebugText(k) ==
    CASE k = "Class"      -> <<"C","l","a","s","s">>
      [] k = "Interface"  -> <<"I","n","t","e","r","f","a","c","e">>
      [] k = "Enum"       -> <<"E","n","u","m">>
      [] k = "Record"     -> <<"R","e","c","o","r","d">>
      [] k = "Annotation" -> <<"A","n","n","o","t","a","t","i","o","n">>
      [] k = "Exact"      -> <<"E","x","a","c","t">>
      [] k = "Fuzzy"      -> <<"F","u","z","z","y">>
      [] k = "Regex"      -> <<"R","e","g","e","x">>

\* The kind keyword of a signature (src/src/parser/java.rs:543-549).
KindKeyword(k) ==
    CASE k = "Class"      -> <<"c","l","a","s","s">>
      [] k = "Interface"  -> <<"i","n","t","e","r","f","a","c","e">>
      [] k = "Enum"       -> <<"e","n","u","m">>
      [] k = "Record"     -> <<"r","e","c","o","r","d">>
      [] k = "Annotation" -> <<"@","i","n","t","e","r","f","a","c","e">>

wPublic == <<"p","u","b","l","i","c">>
wFinal  == <<"f","i","n","a","l">>
wFoo    == <<"F","o","o">>
wBar    == <<"B","a","r">>
wBaz    == <<"B","a","z">>
wSvc    == <<"S","v","c">>
wPkg    == <<"a">>
wInt    == <<"i","n","t">>
wId     == <<"i","d">>
wGet    == <<"g","e","t">>
wCol    == <<"C","o","l">>
wRec    == <<"R","e","c">>
wAnn    == <<"A","n","n">>

SourceRange(sl, sc, el, ec) ==
    [start_line |-> sl, start_column |-> sc, end_line |-> el, end_column |-> ec]

Annotation(n, vals) == [name |-> n, values |-> vals]

Field(n, t, mods) == [name |-> n, type_name |-> t, modifiers |-> mods, annotations |-> <<>>]

Method(n, rt, mods, rng) ==
    [name |-> n, return_type |-> rt, parameters |-> <<>>, modifiers |-> mods,
     annotations |-> <<>>, range |-> rng, body_range |-> None]

\* JavaParser::get_signature (src/src/parser/java.rs:521-561): modifiers, kind
\* keyword, then "package.name" (or the bare name for the default package).
Signature(mods, kind, package, name) ==
    Join(mods \o <<KindKeyword(kind)>>
              \o <<IF package = <<>> THEN name ELSE package \o <<".">> \o name>>, Sp)

Declaration(n, k, mods, annos, package, ext, impls, flds, meths, rng, docu) ==
    [name |-> n, kind |-> k, modifiers |-> mods, annotations |-> annos,
     signature |-> Signature(mods, k, package, n), extends |-> ext,
     implements |-> impls, fields |-> flds, methods |-> meths, range |-> rng,
     documentation |-> docu]

(***************************************************************************)
(* Documents (src/src/indexer/mod.rs:51-161, 248-305)                      *)
(***************************************************************************)
\* serde_json::to_string / from_str of the field and method lists. The text of
\* the blob is not spelled out: a blob is the tagged value, and anything that is
\* not a blob (the "" of a missing field) fails to parse.
ToJson(v) == <<"json", v>>
FromJsonOrDefault(t) == IF Len(t) = 2 /\ t[1] = "json" THEN t[2] ELSE <<>>

DocFields == {"name", "package", "file_path", "signature", "documentation", "kind",
              "modifiers", "annotations", "extends", "implements", "fields",
              "methods", "start_line", "end_line", "start_column", "end_column",
              "source_hash"}

AnnotationNames(annos) == [i \in 1..Len(annos) |-> annos[i].name]

\* IndexManager::create_document: a document maps each schema field to the
\* values added for it (none when the Option is None).
CreateDocument(declaration, java_file) ==
    [name          |-> <<declaration.name>>,
     package       |-> <<java_file.package>>,
     file_path     |-> <<java_file.path>>,
     signature     |-> <<declaration.signature>>,
     documentation |-> IF IsSome(declaration.documentation)
                       THEN <<declaration.documentation[1]>> ELSE <<>>,
     kind          |-> <<DebugText(declaration.kind)>>,
     modifiers     |-> <<Join(declaration.modifiers, Sp)>>,
     annotations   |-> <<Join(AnnotationNames(declaration.annotations), Sp)>>,
     extends       |-> IF IsSome(declaration.extends)
                       THEN <<declaration.extends[1]>> ELSE <<>>,
     implements    |-> <<Join(declaration.implements, Sp)>>,
     fields        |-> <<ToJson(declaration.fields)>>,
     methods       |-> <<ToJson(declaration.methods)>>,
     start_line    |-> <<declaration.range.start_line>>,
     end_line      |-> <<declaration.range.end_line>>,
     start_column  |-> <<declaration.range.start_column>>,
     end_column    |-> <<declaration.range.end_column>>,
     source_hash   |-> <<java_file.source_hash>>]

\* The get_text closure: first value of the field, or "".
GetText(doc, f) == IF doc[f] = <<>> THEN <<>> ELSE doc[f][1]

\* The get_u64 closure: first value of the field, or 0.
GetU64(doc, f) == IF doc[f] = <<>> THEN 0 ELSE doc[f][1]

\* The match on get_text("kind"), with its default arm.
KindFromText(t) ==
    IF \E k \in DeclarationKinds : DebugText(k) = t
    THEN CHOOSE k \in DeclarationKinds : DebugText(k) = t
    ELSE "Class"

\* Some(s).filter(|s| !s.is_empty())
NonEmptyOption(s) == IF s = <<>> THEN None ELSE Some(s)

\* IndexManager::create_declaration_from_doc
CreateDeclarationFromDoc(doc) ==
    [name          |-> GetText(doc, "name"),
     kind          |-> KindFromText(GetText(doc, "kind")),
     modifiers     |-> SplitWhitespace(GetText(doc, "modifiers")),
     annotations   |-> <<>>,
     signature     |-> GetText(doc, "signature"),
     extends       |-> NonEmptyOption(GetText(doc, "extends")),
     implements    |-> SplitWhitespace(GetText(doc, "implements")),
     fields        |-> FromJsonOrDefault(GetText(doc, "fields")),
     methods       |-> FromJsonOrDefault(GetText(doc, "methods")),
     range         |-> SourceRange(GetU64(doc, "start_line"), GetU64(doc, "start_column"),
                                   GetU64(doc, "end_line"), GetU64(doc, "end_column")),
     documentation |-> NonEmptyOption(GetText(doc, "documentation"))]

\* IndexManager::document_to_result
Colon == <<":", " ">>
DocumentToResult(doc) ==
    [declaration |-> CreateDeclarationFromDoc(doc),
     file_path   |-> GetText(doc, "file_path"),
     score       |-> 1,
     preview     |-> GetText(doc, "name") \o Colon \o GetText(doc, "signature")]

(***************************************************************************)
(* Source files handed to the index (JavaFile values as the parser builds  *)
(* them: JavaParser::parse_file, src/src/parser/java.rs:313-325)           *)
(***************************************************************************)
JavaFile(pth, pkg, decls, hash) ==
    [path |-> pth, package |-> pkg, declarations |-> decls, source_hash |-> hash]

DeclFoo ==
    Declaration(wFoo, "Class", <<wPublic>>, <<Annotation(wSvc, <<>>)>>, wPkg, None,
                <<wBar>>, <<Field(wId, wInt, <<wFinal>>)>>,
                <<Method(wGet, wInt, <<wPublic>>, SourceRange(2, 3, 2, 9))>>,
                SourceRange(1, 1, 3, 2), None)

DeclBar ==
    Declaration(wBar, "Interface", <<wPublic>>, <<>>, wPkg, None, <<>>, <<>>, <<>>,
                SourceRange(4, 1, 5, 2), None)

\* Its documentation mentions Foo.
DeclBaz ==
    Declaration(wBaz, "Class", <<>>, <<>>, wPkg, Some(wFoo), <<>>, <<>>, <<>>,
                SourceRange(1, 1, 2, 2), Some(<<"o","f">> \o Sp \o wFoo))

File1 == JavaFile(<<"/">> \o wPkg \o <<"/">> \o wFoo, wPkg, <<DeclFoo, DeclBar>>, <<"h","1">>)
File2 == JavaFile(<<"/">> \o wPkg \o <<"/">> \o wBaz, wPkg, <<DeclBaz>>, <<"h","2">>)

\* One declaration of each kind.
DeclCol ==
    Declaration(wCol, "Enum", <<wPublic>>, <<>>, wPkg, None, <<>>, <<>>, <<>>,
                SourceRange(6, 1, 7, 2), None)

DeclRec ==
    Declaration(wRec, "Record", <<wPublic>>, <<>>, wPkg, None, <<>>, <<>>, <<>>,
                SourceRange(8, 1, 9, 2), None)

DeclAnn ==
    Declaration(wAnn, "Annotation", <<wPublic>>, <<>>, wPkg, None, <<>>, <<>>, <<>>,
                SourceRange(10, 1, 11, 2), None)

File3 == JavaFile(<<"/">> \o wPkg \o <<"/">> \o wCol, wPkg,
                  <<DeclFoo, DeclBar, DeclCol, DeclRec, DeclAnn>>, <<"h","3">>)

Files == <<File1, File2, File3>>

\* The files the write calls of a run index.
FileIds == {1, 2}
Hashes == {Files[f].source_hash : f \in FileIds}

\* A document in the index: the write call that added it, its position in that
\* call's loop and the file it came from. Its content is the document
\* create_document built for that declaration (index_java_file, line 92).
Entry(c, j, f) == [call |-> c, idx |-> j, file |-> f]

DocOf(e) == CreateDocument(Files[e.file].declarations[e.idx], Files[e.file])

FileEntries(c, f) == {Entry(c, j, f) : j \in 1..Len(Files[f].declarations)}

HashOf(e) == GetText(DocOf(e), "source_hash")

(***************************************************************************)
(* Queries against a searcher (src/src/indexer/mod.rs:163-212)             *)
(***************************************************************************)
\* The tokenizer of the TEXT fields of create_schema: runs of alphanumeric
\* characters, lower-cased.
Tokenize(s) ==
    LET runs == SplitRuns(s, <<>>, "alnum")
    IN  [i \in 1..Len(runs) |-> LowerStr(runs[i])]

Min2(a, b) == IF a <= b THEN a ELSE b

\* Edit distance with a transposition counted as one edit
\* (FuzzyTermQuery::new(term, 2, true)).
RECURSIVE EditDistance(_, _)
EditDistance(a, b) ==
    IF a = <<>> THEN Len(b)
    ELSE IF b = <<>> THEN Len(a)
    ELSE LET del == EditDistance(Tail(a), b) + 1
             ins == EditDistance(a, Tail(b)) + 1
             sub == EditDistance(Tail(a), Tail(b)) + (IF Head(a) = Head(b) THEN 0 ELSE 1)
             base == Min2(del, Min2(ins, sub))
         IN  IF Len(a) >= 2 /\ Len(b) >= 2 /\ a[1] = b[2] /\ a[2] = b[1]
             THEN Min2(base, EditDistance(Tail(Tail(a)), Tail(Tail(b))) + 1)
             ELSE base

FuzzyDistance == 2

SearchKinds == {"Exact", "Fuzzy", "Regex"}

SearchQuery(q, k, fs, lim) == [query |-> q, kind |-> k, filters |-> fs, limit |-> lim]

\* A clause of a parsed query on one field: the word's tokens occur, in order
\* and adjacent, among the field's tokens (a term query for one token, a
\* phrase query for several; a word without tokens gives no clause).
ClauseMatches(word, doc, f) ==
    LET toks == Tokenize(word)
    IN  /\ toks # <<>>
        /\ Contains(Tokenize(GetText(doc, f)), toks)

\* QueryParser::for_index(index, fields).parse_query(text): the words of the
\* text, each looked up in every default field, any clause sufficing.
ParsedQueryMatches(text, doc, fields) ==
    \E i \in 1..Len(SplitWhitespace(text)) :
        \E f \in fields : ClauseMatches(SplitWhitespace(text)[i], doc, f)

\* IndexManager::build_query, as the predicate the built query evaluates on a
\* document.
QueryMatches(search, doc) ==
    CASE search.kind = "Exact" ->
            ParsedQueryMatches(search.query, doc, {"name", "signature", "documentation"})
      [] search.kind = "Fuzzy" ->
            \E i \in 1..Len(Tokenize(GetText(doc, "name"))) :
                EditDistance(search.query, Tokenize(GetText(doc, "name"))[i])
                    <= FuzzyDistance
      [] search.kind = "Regex" ->
            ParsedQueryMatches(search.query, doc, {"name"})

DefaultLimit == 100

\* query.limit.unwrap_or(100)
LimitOf(search) == IF IsSome(search.limit) THEN search.limit[1] ELSE DefaultLimit

\* Index entries in address order: by the write call that added them, then by
\* position in that call.
EntryBefore(a, b) == a.call < b.call \/ (a.call = b.call /\ a.idx < b.idx)

EntriesInOrder(S) ==
    LET Max(N) == IF N = {} THEN 0 ELSE CHOOSE m \in N : \A o \in N : o <= m
        ncalls == Max({e.call : e \in S}) + 1
        width  == Max({e.idx : e \in S})
        \* the addresses (call, idx) in order, and those of them S holds
        addresses == [k \in 1..(ncalls * width) |->
                         <<(k - 1) \div width, ((k - 1) % width) + 1>>]
        At(a)  == {e \in S : e.call = a[1] /\ e.idx = a[2]}
        held   == SelectSeq(addresses, LAMBDA a : At(a) # {})
    IN  [i \in 1..Len(held) |-> CHOOSE e \in At(held[i]) : TRUE]

\* The subsets of S that have k elements (all of S when it has fewer).
KSubsets(S, k) ==
    LET n     == Cardinality(S)
        keep  == IF k < n THEN k ELSE n
        small == IF keep <= n - keep THEN keep ELSE n - keep
        picks == {P \in {{f[i] : i \in 1..small} : f \in [1..small -> S]} :
                     Cardinality(P) = small}
    IN  IF keep <= n - keep THEN picks ELSE {S \ P : P \in picks}

\* A collector that keeps every match.
TopDocsUnlimited(searcher, search) ==
    {{e \in searcher : QueryMatches(search, DocOf(e))}}

\* TopDocs::with_limit(n) over the matching entries. Relevance scores are not
\* modelled: the collector may keep any n of the matches.
TopDocs(searcher, search) ==
    LET hits == {e \in searcher : QueryMatches(search, DocOf(e))}
        n    == Min2(LimitOf(search), Cardinality(hits))
    IN  KSubsets(hits, n)

\* The loop of IndexManager::search over top_docs.
ResultsOf(top) ==
    LET es == EntriesInOrder(top)
    IN  [i \in 1..Len(es) |-> DocumentToResult(DocOf(es[i]))]

(***************************************************************************)
(* IndexManager (src/src/indexer/mod.rs)                                   *)
(***************************************************************************)
MaxCalls == 2    \* write calls per run
MaxReads == 1    \* IndexManager::search / stats calls per run

NoTask == "none"
Writers == {"w1", "w2"}
Readers == {"r1"}

\* IndexManager::new opens the index at index_path when it exists: the index
\* a run starts from is empty or holds an earlier run's commit of File1.
InitialIndexes == {{}, FileEntries(0, 1)}

\* The write call of the earlier run, as the log records it.
EarlierIndexing ==
    [call |-> 0, op |-> "index", file |-> 1, hash |-> Files[1].source_hash, ok |-> TRUE]

IdleWriter == [pc |-> "idle", op |-> "none", call |-> 0, file |-> 0, next |-> 0,
               hash |-> <<>>, before |-> {}]
IdleReader == [pc |-> "idle", op |-> "none", query |-> <<>>, searcher |-> {},
               atStart |-> {}, atCollect |-> {}, results |-> <<>>, num_docs |-> 0]

\* A write guard that is granted to every caller (no serialization).
WriterLockAlwaysFree == TRUE

\* self.writer.write().await: granted when no task holds the write guard.
WriterLockFree == writerLock = NoTask

\* A commit whose delete_term matches earlier documents whatever their hash.
CommitResultAnyHash(com, pend, dels) ==
    {e \in com \cup pend : ~ \E d \in dels : e.call < d.call}

\* A commit that keeps only the latest copy of each document (an upsert).
CommitResultUpsert(com, pend, dels) ==
    LET kept == {e \in com \cup pend :
                    ~ \E d \in dels : d.hash = HashOf(e) /\ e.call < d.call}
    IN  {e \in kept : ~ \E o \in kept : DocOf(o) = DocOf(e) /\ o.call > e.call}

\* IndexWriter::commit: pending additions become visible, except those a
\* pending delete_term issued after them matches; committed documents matching
\* a pending delete_term are removed.
CommitResult(com, pend, dels) ==
    {e \in com \cup pend :
        ~ \E d \in dels : d.hash = HashOf(e) /\ e.call < d.call}

LogEntry(t, ok) ==
    [call |-> t.call, op |-> t.op, file |-> t.file, hash |-> t.hash, ok |-> ok]

LastWrite(t, ok, after) ==
    [call |-> t.call, op |-> t.op, file |-> t.file, hash |-> t.hash, ok |-> ok,
     next |-> t.next, before |-> t.before, after |-> after]

NoWrite == [call |-> 0, op |-> "none", file |-> 0, hash |-> <<>>, ok |-> FALSE,
            next |-> 0, before |-> {}, after |-> {}]

\* index_java_file, line 89: take the write guard.
IndexJavaFile(w, f) ==
    /\ wtask[w].pc = "idle"
    /\ calls < MaxCalls
    /\ WriterLockFree
    /\ writerLock' = w
    /\ calls' = calls + 1
    /\ wtask' = [wtask EXCEPT ![w] =
                    [pc |-> "add", op |-> "index", call |-> calls + 1, file |-> f,
                     next |-> 1, hash |-> Files[f].source_hash, before |-> committed]]
    /\ UNCHANGED <<committed, pending, pendingDel, loaded, log, lastWrite, rtask, reads>>
    /\ UNCHANGED <<qVars, docVars, statVars, parseVars, batchVars, graphVars>>

\* index_java_file, lines 91-94: one iteration of the loop that succeeds.
AddDocument(w) ==
    LET t == wtask[w] IN
    /\ t.pc = "add"
    /\ t.next <= Len(Files[t.file].declarations)
    /\ pending' = pending \cup {Entry(t.call, t.next, t.file)}
    /\ wtask' = [wtask EXCEPT ![w].next = t.next + 1]
    /\ UNCHANGED <<committed, pendingDel, loaded, writerLock, calls, log, lastWrite, rtask, reads>>
    /\ UNCHANGED <<qVars, docVars, statVars, parseVars, batchVars, graphVars>>

\* index_java_file, lines 92-93: create_document or add_document returns Err
\* and `?` returns it: the guard is dropped, what was added stays in the writer.
AddDocumentFails(w) ==
    LET t == wtask[w] IN
    /\ t.pc = "add"
    /\ t.next <= Len(Files[t.file].declarations)
    /\ writerLock' = NoTask
    /\ wtask' = [wtask EXCEPT ![w] = IdleWriter]
    /\ log' = Append(log, LogEntry(t, FALSE))
    /\ lastWrite' = LastWrite(t, FALSE, committed)
    /\ UNCHANGED <<committed, pending, pendingDel, loaded, calls, rtask, reads>>
    /\ UNCHANGED <<qVars, docVars, statVars, parseVars, batchVars, graphVars>>

\* delete_by_hash, line 308: take the write guard.
DeleteByHash(w, h) ==
    /\ wtask[w].pc = "idle"
    /\ calls < MaxCalls
    /\ WriterLockFree
    /\ writerLock' = w
    /\ calls' = calls + 1
    /\ wtask' = [wtask EXCEPT ![w] =
                    [pc |-> "delete", op |-> "delete", call |-> calls + 1, file |-> 0,
                     next |-> 0, hash |-> h, before |-> committed]]
    /\ UNCHANGED <<committed, pending, pendingDel, loaded, log, lastWrite, rtask, reads>>
    /\ UNCHANGED <<qVars, docVars, statVars, parseVars, batchVars, graphVars>>

\* delete_by_hash, lines 310-313: writer.delete_term(term).
DeleteTerm(w) ==
    LET t == wtask[w] IN
    /\ t.pc = "delete"
    /\ pendingDel' = pendingDel \cup {[hash |-> t.hash, call |-> t.call]}
    /\ wtask' = [wtask EXCEPT ![w].pc = "commit"]
    /\ UNCHANGED <<committed, pending, loaded, writerLock, calls, log, lastWrite, rtask, reads>>
    /\ UNCHANGED <<qVars, docVars, statVars, parseVars, batchVars, graphVars>>

\* optimize, line 320: take the write guard.
Optimize(w) ==
    /\ wtask[w].pc = "idle"
    /\ calls < MaxCalls
    /\ WriterLockFree
    /\ writerLock' = w
    /\ calls' = calls + 1
    /\ wtask' = [wtask EXCEPT ![w] =
                    [pc |-> "commit", op |-> "optimize", call |-> calls + 1, file |-> 0,
                     next |-> 0, hash |-> <<>>, before |-> committed]]
    /\ UNCHANGED <<committed, pending, pendingDel, loaded, log, lastWrite, rtask, reads>>
    /\ UNCHANGED <<qVars, docVars, statVars, parseVars, batchVars, graphVars>>

\* writer.commit()? and the return of Ok(()), which drops the guard
\* (lines 96-97, 314-316, 321-322).
Commit(w) ==
    LET t == wtask[w] IN
    /\ \/ t.pc = "commit"
       \/ t.pc = "add" /\ t.next > Len(Files[t.file].declarations)
    /\ committed' = CommitResult(committed, pending, pendingDel)
    /\ pending' = {}
    /\ pendingDel' = {}
    /\ writerLock' = NoTask
    /\ wtask' = [wtask EXCEPT ![w] = IdleWriter]
    /\ log' = Append(log, LogEntry(t, TRUE))
    /\ lastWrite' = LastWrite(t, TRUE, committed')
    /\ UNCHANGED <<loaded, calls, rtask, reads>>
    /\ UNCHANGED <<qVars, docVars, statVars, parseVars, batchVars, graphVars>>

\* The reader built in IndexManager::new (lines 35-37) keeps the default reload
\* policy: a watcher reloads the searcher some time after a commit; nothing in
\* index_java_file, delete_by_hash, optimize, search or stats reloads it.
Reload ==
    /\ loaded # committed
    /\ loaded' = committed
    /\ UNCHANGED <<committed, pending, pendingDel, writerLock, calls, wtask, log, lastWrite,
                   rtask, reads>>
    /\ UNCHANGED <<qVars, docVars, statVars, parseVars, batchVars, graphVars>>

\* self.reader.searcher()
CurrentSearcher == loaded

\* IndexManager::search, line 164: take a searcher. Ghost fields: atStart is
\* the committed index when the call starts, atCollect the reader's searcher
\* when the call reads its hits.
SearchAcquire(r, q) ==
    /\ rtask[r].pc \in {"idle", "done"}
    /\ reads < MaxReads
    /\ reads' = reads + 1
    /\ rtask' = [rtask EXCEPT ![r] =
                    [pc |-> "searching", op |-> "search", query |-> q,
                     searcher |-> CurrentSearcher, atStart |-> committed,
                     atCollect |-> {}, results |-> <<>>, num_docs |-> 0]]
    /\ UNCHANGED <<committed, pending, pendingDel, loaded, writerLock, calls, wtask, log, lastWrite>>
    /\ UNCHANGED <<qVars, docVars, statVars, parseVars, batchVars, graphVars>>

\* A search that reads its documents from the reader's searcher of the moment.
SearcherOfTheMoment(r) == loaded

\* The searcher the documents of a running search are read from.
SearcherOf(r) == rtask[r].searcher

\* IndexManager::search, line 180: return the results built from the hits.
SearchReturn(r, found) ==
    /\ rtask[r].pc = "searching"
    /\ rtask' = [rtask EXCEPT ![r].pc = "done", ![r].results = found,
                              ![r].atCollect = loaded]
    /\ UNCHANGED <<committed, pending, pendingDel, loaded, writerLock, calls, wtask, log, lastWrite,
                   reads>>
    /\ UNCHANGED <<qVars, docVars, statVars, parseVars, batchVars, graphVars>>

\* IndexManager::search, lines 166-180: run the query, load and convert the
\* hits, return them.
SearchCollect(r) ==
    /\ rtask[r].pc = "searching"
    /\ \E top \in TopDocs(SearcherOf(r), rtask[r].query) :
          SearchReturn(r, ResultsOf(top))

\* IndexManager::stats, lines 325-334.
Stats(r) ==
    /\ rtask[r].pc \in {"idle", "done"}
    /\ reads < MaxReads
    /\ reads' = reads + 1
    /\ rtask' = [rtask EXCEPT ![r] =
                    [pc |-> "done", op |-> "stats", query |-> <<>>,
                     searcher |-> CurrentSearcher, atStart |-> committed,
                     atCollect |-> loaded, results |-> <<>>,
                     num_docs |-> Cardinality(CurrentSearcher)]]
    /\ UNCHANGED <<committed, pending, pendingDel, loaded, writerLock, calls, wtask, log, lastWrite>>
    /\ UNCHANGED <<qVars, docVars, statVars, parseVars, batchVars, graphVars>>

(***************************************************************************)
(* QueryEngine (src/src/query/mod.rs)                                      *)
(***************************************************************************)
MaxSearches == 2    \* QueryEngine::search calls per run

Engines == {"q1"}

KindFilter(k)       == [tag |-> "Kind", arg |-> k]
AnnotationFilter(a) == [tag |-> "Annotation", arg |-> a]
PackageFilter(p)    == [tag |-> "Package", arg |-> p]
ModuleFilter(m)     == [tag |-> "Module", arg |-> m]

\* The closure each arm of apply_filters passes to filter().
SatisfiesFilter(r, f) ==
    CASE f.tag = "Kind"       -> r.declaration.kind = f.arg
      [] f.tag = "Annotation" ->
            \E i \in 1..Len(r.declaration.annotations) :
                Contains(r.declaration.annotations[i].name, f.arg)
      [] f.tag = "Package"    -> Contains(r.file_path, f.arg)
      [] f.tag = "Module"     -> Contains(r.file_path, f.arg)

\* QueryEngine::apply_filters: one pass of filter() per filter, in order.
RECURSIVE ApplyFilters(_, _)
ApplyFilters(results, filters) ==
    IF filters = <<>> THEN results
    ELSE ApplyFilters(SelectSeq(results, LAMBDA r : SatisfiesFilter(r, Head(filters))),
                      Tail(filters))

\* The comparators of sort_results, as "a may stay before b".
SortLeq(a, b, kind) ==
    CASE kind = "Fuzzy" -> b.score <= a.score
      [] kind = "Exact" -> StrLeq(a.declaration.name, b.declaration.name)
      [] kind = "Regex" -> PathLeq(a.file_path, b.file_path)

\* Insert x after the last element that may stay before it (a stable sort).
RECURSIVE InsertSorted(_, _, _)
InsertSorted(sorted, x, kind) ==
    IF sorted = <<>> THEN <<x>>
    ELSE IF SortLeq(sorted[Len(sorted)], x, kind) THEN Append(sorted, x)
    ELSE Append(InsertSorted(SubSeq(sorted, 1, Len(sorted) - 1), x, kind),
                sorted[Len(sorted)])

\* A sort that leaves the list as the index returned it.
SortResultsKeepsOrder(results, kind) == results

\* QueryEngine::sort_results (slice::sort_by is stable).
RECURSIVE SortResults(_, _)
SortResults(results, kind) ==
    IF results = <<>> THEN <<>>
    ELSE InsertSorted(SortResults(SubSeq(results, 1, Len(results) - 1), kind),
                      results[Len(results)], kind)

\* A cache key that also holds the limit.
CacheKeyWithLimit(query) ==
    DebugText(query.kind) \o <<":">> \o query.query \o <<":">> \o query.limit

\* format!("{:?}:{}", query.kind, query.query)
CacheKey(query) == DebugText(query.kind) \o <<":">> \o query.query

\* The (kind, query string) pair of a query, for the ghost record of inserts.
KindAndText(query) == <<query.kind, query.query>>

IdleEngine == [pc |-> "idle", query |-> <<>>, results |-> <<>>, hit |-> FALSE,
               prior |-> None, searcher |-> {}, atStart |-> {}]

NoCall == [pc |-> "none", query |-> <<>>, results |-> <<>>, hit |-> FALSE,
           prior |-> None, searcher |-> {}, atStart |-> {}]

\* What lines 35-41 compute from the hits of index_manager.search.
FilterAndSort(found, query) ==
    SortResults(ApplyFilters(found, query.filters), query.kind)

\* The value search hands back when cache.get(&cache_key) is Some (line 31).
OnCacheHit(cached, query) == cached

\* QueryEngine::search up to its return or to the cache insert: the cache
\* lookup (lines 27-33) and, on a miss, index_manager.search with the filters
\* and the sort (lines 35-41). The lookup reads only the cache and the index
\* search reads only the searcher it takes, so taking them in one step loses no
\* interleaving.
Search(t, q) ==
    /\ qtask[t].pc = "idle"
    /\ searches < MaxSearches
    /\ searches' = searches + 1
    /\ LET prior == IF KindAndText(q) \in DOMAIN qlog
                    THEN Some(qlog[KindAndText(q)]) ELSE None
       IN  IF CacheKey(q) \in DOMAIN cache
           THEN /\ qlast' = [pc |-> "returned", query |-> q,
                             results |-> OnCacheHit(cache[CacheKey(q)], q),
                             hit |-> TRUE, prior |-> prior, searcher |-> {},
                             atStart |-> committed]
                /\ UNCHANGED qtask
           ELSE /\ \E top \in TopDocs(CurrentSearcher, q) :
                      qtask' = [qtask EXCEPT ![t] =
                                [pc |-> "insert", query |-> q,
                                 results |-> FilterAndSort(ResultsOf(top), q),
                                 hit |-> FALSE, prior |-> prior,
                                 searcher |-> CurrentSearcher, atStart |-> committed]]
                /\ UNCHANGED qlast
    /\ UNCHANGED <<cache, qlog>>
    /\ UNCHANGED <<idxVars, docVars, statVars, parseVars, batchVars, graphVars>>

\* QueryEngine::search, lines 44-49: insert under the write lock and return.
CacheInsert(t) ==
    /\ qtask[t].pc = "insert"
    /\ cache' = [k \in DOMAIN cache \cup {CacheKey(qtask[t].query)} |->
                    IF k = CacheKey(qtask[t].query) THEN qtask[t].results ELSE cache[k]]
    /\ qlog' = [k \in DOMAIN qlog \cup {KindAndText(qtask[t].query)} |->
                    IF k = KindAndText(qtask[t].query)
                    THEN [by |-> qtask[t].query, results |-> qtask[t].results]
                    ELSE qlog[k]]
    /\ qlast' = [qtask[t] EXCEPT !.pc = "returned"]
    /\ qtask' = [qtask EXCEPT ![t] = IdleEngine]
    /\ UNCHANGED searches
    /\ UNCHANGED <<idxVars, docVars, statVars, parseVars, batchVars, graphVars>>

\* QueryEngine::clear_cache
ClearCache ==
    /\ DOMAIN cache # {}
    /\ cache' = <<>>
    /\ qlog' = <<>>
    /\ qlast' = [NoCall EXCEPT !.pc = "cleared"]
    /\ UNCHANGED <<qtask, searches>>
    /\ UNCHANGED <<idxVars, docVars, statVars, parseVars, batchVars, graphVars>>

RECURSIVE SumLens(_, _)
SumLens(f, keys) ==
    IF keys = {} THEN 0
    ELSE LET k == CHOOSE x \in keys : TRUE
         IN  Len(f[k]) + SumLens(f, keys \ {k})

\* QueryEngine::get_cache_stats
GetCacheStats == <<Cardinality(DOMAIN cache), SumLens(cache, DOMAIN cache)>>

\* QueryEngine::search_by_kind: the query it builds.
SearchByKind(kind, limit) ==
    SearchQuery(DebugText(kind), "Exact", <<KindFilter(kind)>>, limit)

\* The order in which get_statistics asks for the kinds (lines 175-179).
KindOrder == <<"Class", "Interface", "Enum", "Record", "Annotation">>

NoStat == [pc |-> "off", total |-> 0, counts |-> <<>>, atStart |-> {}]

\* get_statistics, line 173: index_manager.stats(). Ghost field atStart: the
\* committed index when the call starts.
GetStatistics ==
    /\ stat.pc = "idle"
    /\ stat' = [pc |-> "kinds", total |-> Cardinality(CurrentSearcher),
                counts |-> <<>>, atStart |-> committed]
    /\ UNCHANGED <<idxVars, qVars, docVars, parseVars, batchVars, graphVars>>

\* get_statistics, lines 175-179: the next search_by_kind(kind, None) call,
\* a whole QueryEngine::search (lookup, and on a miss the index search, the
\* filters, the sort and the cache insert), and .len() of what it returns.
StatKind ==
    /\ stat.pc = "kinds"
    /\ LET q     == SearchByKind(KindOrder[Len(stat.counts) + 1], None)
           prior == IF KindAndText(q) \in DOMAIN qlog
                    THEN Some(qlog[KindAndText(q)]) ELSE None
           hit   == CacheKey(q) \in DOMAIN cache
       IN  \E found \in (IF hit THEN {OnCacheHit(cache[CacheKey(q)], q)}
                         ELSE {FilterAndSort(ResultsOf(top), q) :
                                  top \in TopDocs(CurrentSearcher, q)}) :
              /\ stat' = [stat EXCEPT
                            !.counts = Append(stat.counts, Len(found)),
                            !.pc = IF Len(stat.counts) + 1 = Len(KindOrder)
                                   THEN "done" ELSE "kinds"]
              /\ cache' = IF hit THEN cache
                          ELSE [k \in DOMAIN cache \cup {CacheKey(q)} |->
                                   IF k = CacheKey(q) THEN found ELSE cache[k]]
              /\ qlog' = IF hit THEN qlog
                         ELSE [k \in DOMAIN qlog \cup {KindAndText(q)} |->
                                  IF k = KindAndText(q)
                                  THEN [by |-> q, results |-> found] ELSE qlog[k]]
              /\ qlast' = [pc |-> "returned", query |-> q, results |-> found,
                           hit |-> hit, prior |-> prior,
                           searcher |-> IF hit THEN {} ELSE CurrentSearcher,
                           atStart |-> committed]
    /\ UNCHANGED <<qtask, searches, idxVars, docVars, parseVars, batchVars, graphVars>>

(***************************************************************************)
(* Document round trip: create_document, then create_declaration_from_doc  *)
(***************************************************************************)
MaxModifiers   == 2    \* modifiers per declaration
MaxAnnotations == 1    \* annotations per declaration
MaxImplements  == 2    \* implemented interfaces per declaration

SeqsUpTo(S, n) == UNION {[1..k -> S] : k \in 0..n}

\* Declarations as the parser builds them: modifiers are Java modifier
\* keywords, implemented interfaces are type identifiers.
DocInputs ==
    {Declaration(wFoo, k, mods, annos, wPkg, ext, impls, members[1], members[2],
                 SourceRange(1, 1, 3, 2), docu) :
        k \in DeclarationKinds,
        mods \in SeqsUpTo({wPublic, wFinal}, MaxModifiers),
        annos \in SeqsUpTo({Annotation(wSvc, <<>>)}, MaxAnnotations),
        ext \in {None, Some(wBaz)},
        impls \in SeqsUpTo({wBar}, MaxImplements),
        members \in {<<DeclBar.fields, DeclBar.methods>>,
                     <<DeclFoo.fields, DeclFoo.methods>>},
        docu \in {None, Some(wFoo \o Sp \o wBar)}}

NoValue == <<>>

\* index_java_file, line 92: build the document of a declaration of File1.
DocCreate ==
    /\ dpc = "decl"
    /\ dDoc' = CreateDocument(dDecl, File1)
    /\ dpc' = "doc"
    /\ UNCHANGED <<dDecl, dBack>>
    /\ UNCHANGED <<idxVars, qVars, statVars, parseVars, batchVars, graphVars>>

\* document_to_result, line 235: rebuild the declaration from the document.
DocRestore ==
    /\ dpc = "doc"
    /\ dBack' = CreateDeclarationFromDoc(dDoc)
    /\ dpc' = "back"
    /\ UNCHANGED <<dDecl, dDoc>>
    /\ UNCHANGED <<idxVars, qVars, statVars, parseVars, batchVars, graphVars>>

(***************************************************************************)
(* Syntax trees: tree_sitter::Node as the parsers read it, for source      *)
(* files the Java grammar accepts                                          *)
(***************************************************************************)
MaxNested == 1    \* depth of type declarations nested in the top-level one

\* A node: its kind, its field name in its parent ("" for none), its text
\* (&source[start_byte..end_byte], a line break written as a space), its start
\* and end position <<row, column>> (0-based) and its children.
Node(kind, field, text, start, end, children) ==
    [kind |-> kind, field |-> field, text |-> text, start |-> start, end |-> end,
     children |-> children]

\* A token on one row.
Leaf(kind, field, text, row, col) ==
    Node(kind, field, text, <<row, col>>, <<row, col + Len(text)>>, <<>>)

kwExtends    == <<"e","x","t","e","n","d","s">>
kwImplements == <<"i","m","p","l","e","m","e","n","t","s">>
kwPackage    == <<"p","a","c","k","a","g","e">>
kwImport     == <<"i","m","p","o","r","t">>
DocComment   == <<"/","*","*"," ","d"," ","*","/">>

\* The node kind of a type declaration and of its body.
DeclarationNodeKind(k) ==
    CASE k = "Class"      -> "class_declaration"
      [] k = "Interface"  -> "interface_declaration"
      [] k = "Enum"       -> "enum_declaration"
      [] k = "Record"     -> "record_declaration"
      [] k = "Annotation" -> "annotation_type_declaration"

BodyNodeKind(k) ==
    CASE k = "Class"      -> "class_body"
      [] k = "Interface"  -> "interface_body"
      [] k = "Enum"       -> "enum_body"
      [] k = "Record"     -> "class_body"
      [] k = "Annotation" -> "annotation_type_body"

NodeTexts(nodes) == [i \in 1..Len(nodes) |-> nodes[i].text]

\* The modifier keywords, each with the node kind the grammar gives its token.
ModifierTokens ==
    << <<"public", wPublic>>,
       <<"private", <<"p","r","i","v","a","t","e">> >>,
       <<"protected", <<"p","r","o","t","e","c","t","e","d">> >>,
       <<"static", <<"s","t","a","t","i","c">> >>,
       <<"final", wFinal>>,
       <<"abstract", <<"a","b","s","t","r","a","c","t">> >>,
       <<"synchronized", <<"s","y","n","c","h","r","o","n","i","z","e","d">> >>,
       <<"volatile", <<"v","o","l","a","t","i","l","e">> >>,
       <<"transient", <<"t","r","a","n","s","i","e","n","t">> >>,
       <<"native", <<"n","a","t","i","v","e">> >>,
       <<"strictfp", <<"s","t","r","i","c","t","f","p">> >> >>

\* The node kind of a child of a modifiers node, from its text: the keyword
\* itself, marker_annotation for `@Name`, annotation for `@Name(...)`.
TokenKind(text) ==
    LET keyword == {i \in 1..Len(ModifierTokens) : ModifierTokens[i][2] = text}
    IN  IF keyword # {} THEN ModifierTokens[CHOOSE i \in keyword : TRUE][1]
        ELSE IF text # <<>> /\ text[1] = "@"
        THEN IF \E i \in 1..Len(text) : text[i] = "(" THEN "annotation"
             ELSE "marker_annotation"
        ELSE "identifier"

\* The node of `mods kind name [extends ext] [implements impls] { members }`
\* starting at <<row, col>>: the closing brace is on the row after the last
\* member. A superclass node holds the keyword and the type; a
\* super_interfaces node holds the keyword and a type_list. The children of
\* the modifiers node are the modifier keywords and annotations in mods.
TypeNode(k, mods, name, ext, impls, members, row, col) ==
    LET erow   == IF members = <<>> THEN row ELSE members[Len(members)].end[1] + 1
        extTxt == IF IsSome(ext) THEN kwExtends \o Sp \o ext[1] ELSE <<>>
        lstTxt == Join(impls, <<",", " ">>)
        implTxt == IF impls # <<>> THEN kwImplements \o Sp \o lstTxt ELSE <<>>
        body   == Node(BodyNodeKind(k), "body",
                       Join(<< <<"{">> >> \o NodeTexts(members) \o << <<"}">> >>, Sp),
                       <<row, col>>, <<erow, col + 1>>,
                       << Leaf("{", "", <<"{">>, row, col) >> \o members
                          \o << Leaf("}", "", <<"}">>, erow, col) >>)
        parts  == (IF mods # <<>>
                   THEN << Node("modifiers", "", Join(mods, Sp), <<row, col>>,
                                <<row, col>>,
                                [i \in 1..Len(mods) |->
                                    Leaf(TokenKind(mods[i]), "", mods[i], row, col)]) >>
                   ELSE <<>>)
                  \o << Leaf("keyword", "", KindKeyword(k), row, col),
                        Leaf("identifier", "name", name, row, col) >>
                  \o (IF IsSome(ext)
                      THEN << Node("superclass", "superclass", extTxt, <<row, col>>,
                                   <<row, col>>,
                                   << Leaf("extends", "", kwExtends, row, col),
                                      Leaf("type_identifier", "", ext[1], row, col) >>) >>
                      ELSE <<>>)
                  \o (IF impls # <<>>
                      THEN << Node("super_interfaces", "interfaces", implTxt,
                                   <<row, col>>, <<row, col>>,
                                   << Leaf("implements", "", kwImplements, row, col),
                                      Node("type_list", "", lstTxt, <<row, col>>,
                                           <<row, col>>,
                                           [i \in 1..Len(impls) |->
                                               Leaf("type_identifier", "", impls[i],
                                                    row, col)]) >>) >>
                      ELSE <<>>)
                  \o <<body>>
    IN  Node(DeclarationNodeKind(k), "", Join(NodeTexts(parts), Sp),
             <<row, col>>, <<erow, col + 1>>, parts)

TypeNames == <<wBar, wBaz, wCol, wRec>>

\* n classes nested in one another, the outermost starting at row.
RECURSIVE NestedTypes(_, _, _)
NestedTypes(n, row, col) ==
    IF n = 0 THEN <<>>
    ELSE << TypeNode("Class", <<>>, TypeNames[n], None, <<>>,
                     NestedTypes(n - 1, row + 1, col + 1), row, col) >>

\* The grammar names a comment node "comment" or, in later versions,
\* "line_comment" / "block_comment".
CommentKinds == {"comment", "block_comment"}

\* What varies between the source files: the package clause (none, one
\* segment, two segments), a doc comment before the type (none, right before
\* it, or before an import that precedes it), the grammar's comment kind, the
\* declaration's kind, its superclass and interfaces, and the nesting depth.
SourceParams ==
    {p \in [pkg : {<<>>, <<"a">>, <<"a", ".", "b">>},
            doc : {"none", "adjacent", "earlier"},
            ckind : CommentKinds,
            kind : DeclarationKinds,
            ext : BOOLEAN,
            impls : 0..MaxImplements,
            nested : 0..MaxNested] :
        p.kind # "Class" => (~ p.ext /\ p.impls = 0)}

\* The source file of p: its path, its hash, its number of lines and the root
\* node of its tree.
Source(p) ==
    LET r1   == IF p.pkg = <<>> THEN 0 ELSE 1
        r2   == IF p.doc = "none" THEN r1 ELSE IF p.doc = "adjacent" THEN r1 + 1 ELSE r1 + 2
        pkgN == IF p.pkg = <<>> THEN <<>>
                ELSE << Node("package_declaration", "", kwPackage \o Sp \o p.pkg \o <<";">>,
                             <<0, 0>>, <<0, Len(p.pkg) + 9>>,
                             << Leaf("package", "", kwPackage, 0, 0),
                                Leaf(IF Len(p.pkg) = 1 THEN "identifier"
                                     ELSE "scoped_identifier", "", p.pkg, 0, 8),
                                Leaf(";", "", <<";">>, 0, Len(p.pkg) + 8) >>) >>
        docN == IF p.doc = "none" THEN <<>>
                ELSE << Leaf(p.ckind, "", DocComment, r1, 0) >>
        impN == IF p.doc = "earlier"
                THEN << Leaf("import_declaration", "", kwImport \o Sp \o <<"x", ";">>,
                             r1 + 1, 0) >>
                ELSE <<>>
        type == TypeNode(p.kind, <<wPublic, wFinal>>, wFoo,
                         IF p.ext THEN Some(TypeNames[1]) ELSE None,
                         SubSeq(TypeNames, 2, p.impls + 1),
                         NestedTypes(p.nested, r2 + 1, 1), r2, 0)
        kids == pkgN \o docN \o impN \o <<type>>
    IN  [path  |-> <<"/">> \o wFoo,
         hash  |-> <<"h">>,
         lines |-> type.end[1] + 1,
         root  |-> Node("program", "", Join(NodeTexts(kids), Sp), <<0, 0>>,
                        <<type.end[1] + 1, 0>>, kids)]

\* node.child_by_field_name(name)
ChildByFieldName(node, name) ==
    LET found == SelectSeq(node.children, LAMBDA c : c.field = name)
    IN  IF found = <<>> THEN None ELSE Some(found[1])

\* text.starts_with(prefix)
StartsWith(text, prefix) ==
    Len(text) >= Len(prefix) /\ SubSeq(text, 1, Len(prefix)) = prefix

\* text.trim()
Trim(text) ==
    LET solid == {i \in 1..Len(text) : ~ IsSpace(text[i])}
    IN  IF solid = {} THEN <<>>
        ELSE SubSeq(text, CHOOSE i \in solid : \A j \in solid : i <= j,
                          CHOOSE i \in solid : \A j \in solid : i >= j)

\* text.trim_start_matches(prefix)
RECURSIVE TrimStartMatches(_, _)
TrimStartMatches(text, prefix) ==
    IF prefix # <<>> /\ StartsWith(text, prefix)
    THEN TrimStartMatches(SubSeq(text, Len(prefix) + 1, Len(text)), prefix)
    ELSE text

(***************************************************************************)
(* JavaParser (src/src/parser/java.rs)                                     *)
(***************************************************************************)
\* JavaNodeKind::from_str(kind).to_declaration_kind()
ToDeclarationKind(kind) ==
    IF \E k \in DeclarationKinds : DeclarationNodeKind(k) = kind
    THEN Some(CHOOSE k \in DeclarationKinds : DeclarationNodeKind(k) = kind)
    ELSE None

\* JavaNodeKind::is_declaration
IsDeclaration(kind) == IsSome(ToDeclarationKind(kind))

Anonymous == <<"A","n","o","n","y","m","o","u","s">>

\* JavaParser::get_declaration_name
GetDeclarationName(node) ==
    LET ids == SelectSeq(node.children, LAMBDA c : c.kind = "identifier")
    IN  IF ids = <<>> THEN Anonymous ELSE ids[1].text

\* The java_modifiers array of get_modifiers.
JavaModifiers ==
    {wPublic, <<"p","r","i","v","a","t","e">>, <<"p","r","o","t","e","c","t","e","d">>,
     <<"s","t","a","t","i","c">>, wFinal, <<"a","b","s","t","r","a","c","t">>,
     <<"s","y","n","c","h","r","o","n","i","z","e","d">>,
     <<"v","o","l","a","t","i","l","e">>, <<"t","r","a","n","s","i","e","n","t">>,
     <<"n","a","t","i","v","e">>, <<"s","t","r","i","c","t","f","p">>}

\* The loop of get_modifiers over the whitespace-separated tokens of the
\* declaration's text, up to the kind keyword.
RECURSIVE ScanModifiers(_, _)
ScanModifiers(tokens, modifiers) ==
    IF tokens = <<>> THEN modifiers
    ELSE LET token == Trim(Head(tokens))
             found == IF token \in JavaModifiers
                         /\ ~ \E i \in 1..Len(modifiers) : modifiers[i] = token
                      THEN Append(modifiers, token) ELSE modifiers
         IN  IF token \in {KindKeyword(k) : k \in DeclarationKinds} THEN found
             ELSE ScanModifiers(Tail(tokens), found)

\* JavaParser::get_modifiers
GetModifiers(node) == ScanModifiers(SplitWhitespace(node.text), <<>>)

\* JavaParser::get_signature
GetSignature(node, package) ==
    IF ~ IsDeclaration(node.kind) THEN node.text
    ELSE Signature(GetModifiers(node), ToDeclarationKind(node.kind)[1], package,
                   GetDeclarationName(node))

\* JavaParser::get_inheritance_info: <<extends, implements>>
GetInheritanceInfo(node) ==
    LET supers == SelectSeq(node.children,
                            LAMBDA c : c.kind = "superclass"
                                       /\ IsSome(ChildByFieldName(c, "type")))
        ifaces == SelectSeq(node.children, LAMBDA c : c.kind = "super_interfaces")
    IN  << IF supers = <<>> THEN None
           ELSE Some(ChildByFieldName(supers[Len(supers)], "type")[1].text),
           Join([i \in 1..Len(ifaces) |->
                    NodeTexts(SelectSeq(ifaces[i].children,
                                        LAMBDA c : c.kind = "type_identifier"))],
                <<>>) >>

\* A range that keeps the 0-based positions of the node.
GetSourceRangeZeroBased(node) ==
    SourceRange(node.start[1], node.start[2], node.end[1], node.end[2])

\* JavaParser::get_source_range
GetSourceRange(node) ==
    SourceRange(node.start[1] + 1, node.start[2] + 1, node.end[1] + 1, node.end[2] + 1)

\* JavaParser::get_documentation
GetDocumentation(node) ==
    LET docs == SelectSeq(node.children,
                          LAMBDA c : c.kind = "comment" /\ StartsWith(c.text, <<"/", "*", "*">>))
    IN  IF docs = <<>> THEN None ELSE Some(docs[1].text)

\* JavaParser::parse_declaration. The source files of this model declare no
\* annotations, fields or methods.
ParseDeclaration(node, package) ==
    [name          |-> GetDeclarationName(node),
     kind          |-> ToDeclarationKind(node.kind)[1],
     modifiers     |-> GetModifiers(node),
     annotations   |-> <<>>,
     signature     |-> GetSignature(node, package),
     extends       |-> GetInheritanceInfo(node)[1],
     implements    |-> GetInheritanceInfo(node)[2],
     fields        |-> <<>>,
     methods       |-> <<>>,
     range         |-> GetSourceRange(node),
     documentation |-> GetDocumentation(node)]

\* JavaParser::get_package_name
GetPackageName(node) ==
    LET named(c) == c.kind \in {"scoped_identifier", "identifier"}
        hits == SelectSeq(node.children,
                          LAMBDA c : \/ named(c)
                                     \/ /\ c.text # <<>>
                                        /\ c.text # kwPackage
                                        /\ ~ Contains(c.text, <<";">>))
    IN  IF hits = <<>> THEN <<>>
        ELSE IF named(hits[1]) THEN hits[1].text
        ELSE Trim(hits[1].text)

\* JavaParser::parse_root: the loop over the root's children.
RECURSIVE ParseRoot(_, _)
ParseRoot(children, java_file) ==
    IF children = <<>> THEN java_file
    ELSE LET child == Head(children)
         IN  ParseRoot(Tail(children),
                 IF child.kind = "package_declaration"
                 THEN [java_file EXCEPT !.package = GetPackageName(child)]
                 ELSE IF IsDeclaration(child.kind)
                 THEN [java_file EXCEPT !.declarations =
                          Append(@, ParseDeclaration(child, java_file.package))]
                 ELSE java_file)

\* JavaParser::parse_file
ParseFile(src) == ParseRoot(src.root.children, JavaFile(src.path, <<>>, <<>>, src.hash))

(***************************************************************************)
(* JavaStructureParser (src/src/parser/java_structure.rs)                  *)
(***************************************************************************)
\* The loop of extract_modifiers over the children of a modifiers node.
RECURSIVE ModifierTexts(_, _)
ModifierTexts(children, modifiers) ==
    IF children = <<>> THEN modifiers
    ELSE LET modifier == Head(children)
             text     == modifier.text
             next ==
               CASE modifier.kind \in {ModifierTokens[i][1] : i \in 1..Len(ModifierTokens)} ->
                        IF text # <<>> THEN Append(modifiers, text) ELSE modifiers
                 [] modifier.kind \in {"marker_annotation", "annotation"} -> modifiers
                 [] OTHER ->
                        IF ~ StartsWith(Trim(text), <<"@">>) /\ text # <<>>
                           /\ Len(Trim(text)) > 0
                        THEN Append(modifiers, text) ELSE modifiers
         IN  ModifierTexts(Tail(children), next)

\* JavaStructureParser::extract_modifiers
RECURSIVE ExtractModifiersFrom(_, _)
ExtractModifiersFrom(children, modifiers) ==
    IF children = <<>> THEN modifiers
    ELSE ExtractModifiersFrom(Tail(children),
            IF Head(children).kind = "modifiers"
            THEN ModifierTexts(Head(children).children, modifiers)
            ELSE modifiers)

ExtractModifiers(node) == ExtractModifiersFrom(node.children, <<>>)

\* JavaStructureParser::extract_package
ExtractPackage(root) ==
    LET pks == SelectSeq(root.children, LAMBDA c : c.kind = "package_declaration")
        ids == Join([i \in 1..Len(pks) |->
                        SelectSeq(pks[i].children,
                                  LAMBDA c : c.kind = "scoped_identifier")], <<>>)
    IN  IF ids = <<>> THEN None ELSE Some(Trim(ids[1].text))

\* JavaStructureParser::build_fqn
BuildFqn(package, class_name) ==
    IF IsSome(package) THEN package[1] \o <<".">> \o class_name ELSE class_name

\* JavaStructureParser::extract_extends
ExtractExtends(node) ==
    LET clause == ChildByFieldName(node, "superclass")
        text   == Trim(TrimStartMatches(Trim(clause[1].text), kwExtends))
    IN  IF IsSome(clause) /\ text # <<>> THEN Some(text) ELSE None

\* JavaStructureParser::extract_implements
ExtractImplements(node) ==
    LET clause == ChildByFieldName(node, "interfaces")
    IN  IF IsSome(clause)
        THEN SelectSeq([i \in 1..Len(clause[1].children) |->
                           Trim(clause[1].children[i].text)],
                       LAMBDA t : t # <<>> /\ t # kwImplements)
        ELSE <<>>

\* JavaStructureParser::extract_documentation for the i-th child of parent
\* (the walk over node.prev_sibling()).
ExtractDocumentation(parent, i) ==
    LET docs == {j \in 1..(i - 1) :
                    /\ parent.children[j].kind \in {"line_comment", "block_comment"}
                    /\ StartsWith(parent.children[j].text, <<"/", "*", "*">>)}
    IN  IF docs = {} THEN None
        ELSE Some(parent.children[CHOOSE j \in docs : \A o \in docs : o <= j].text)

\* JavaStructureParser::node_range
NodeRange(node) ==
    SourceRange(node.start[1] + 1, node.start[2] + 1, node.end[1] + 1, node.end[2] + 1)

\* JavaStructureParser::extract_classes / extract_nested_classes with
\* parse_class for the i-th child of parent: the ClassStructure values of the
\* type declarations among the children of parent (modifiers, annotations,
\* type parameters, fields and methods left out).
RECURSIVE ExtractClasses(_, _)
ExtractClasses(parent, package) ==
    LET ParseClass(i) ==
            LET node == parent.children[i]
                name == ChildByFieldName(node, "name")
                body == ChildByFieldName(node, "body")
            IN  IF ~ IsDeclaration(node.kind) \/ ~ IsSome(name) THEN <<>>
                ELSE << [name           |-> name[1].text,
                         fqn            |-> BuildFqn(package, name[1].text),
                         kind           |-> ToDeclarationKind(node.kind)[1],
                         extends        |-> ExtractExtends(node),
                         implements     |-> ExtractImplements(node),
                         nested_classes |-> IF IsSome(body)
                                            THEN ExtractClasses(body[1], package)
                                            ELSE <<>>,
                         range          |-> NodeRange(node),
                         documentation  |-> ExtractDocumentation(parent, i)] >>
    IN  Join([i \in 1..Len(parent.children) |-> ParseClass(i)], <<>>)

\* JavaStructureParser::extract_structure
ExtractStructure(src) ==
    [package           |-> ExtractPackage(src.root),
     top_level_classes |-> ExtractClasses(src.root, ExtractPackage(src.root))]

(***************************************************************************)
(* Annotations (src/src/parser/java_structure.rs:420-483)                  *)
(***************************************************************************)
MaxElements == 2    \* elements of an array-valued annotation member
MaxMembers  == 2    \* key = value members of an annotation

wValue  == <<"v","a","l","u","e">>
wName   == <<"n","a","m","e">>
wMethod == <<"m","e","t","h","o","d">>

\* Element values: a kind of the grammar and the text.
ElementValues ==
    {[kind |-> "identifier", text |-> wGet],
     [kind |-> "string_literal", text |-> <<"\"">> \o wFoo \o <<"\"">>],
     [kind |-> "number_literal", text |-> <<"1">>],
     [kind |-> "field_access", text |-> wBar \o <<".">> \o wId]}

\* The elements an array initializer is written with.
ArrayElements == {e \in ElementValues : e.kind \in {"identifier", "string_literal"}}

\* The value of a member: one element value, or an array of them.
MemberValues ==
    {[array |-> FALSE, elems |-> <<e>>] : e \in ElementValues}
    \cup {[array |-> TRUE, elems |-> es] : es \in SeqsUpTo(ArrayElements, MaxElements)}

\* What varies between the annotations: no arguments, one bare value, or
\* members with distinct keys.
AnnotationParams ==
    {[form |-> "marker", bare |-> <<>>, members |-> <<>>]}
    \cup {[form |-> "bare", bare |-> v, members |-> <<>>] : v \in MemberValues}
    \cup {[form |-> "members", bare |-> <<>>, members |-> ms] :
             ms \in {m \in SeqsUpTo({wName, wMethod} \X MemberValues, MaxMembers) :
                        /\ m # <<>>
                        /\ \A i, j \in 1..Len(m) : i # j => m[i][1] # m[j][1]}}

\* The nodes of a comma-separated list, with its commas.
RECURSIVE CommaSep(_)
CommaSep(nodes) ==
    IF Len(nodes) <= 1 THEN nodes
    ELSE <<Head(nodes), Leaf(",", "", <<",">>, 0, 0)>> \o CommaSep(Tail(nodes))

\* The node of a member value under the given field name.
ValueNode(v, field) ==
    IF ~ v.array THEN Leaf(v.elems[1].kind, field, v.elems[1].text, 0, 0)
    ELSE LET elems == [i \in 1..Len(v.elems) |->
                          Leaf(v.elems[i].kind, "", v.elems[i].text, 0, 0)]
         IN  Node("element_value_array_initializer", field,
                  <<"{">> \o Join(NodeTexts(elems), <<",", " ">>) \o <<"}">>,
                  <<0, 0>>, <<0, 0>>,
                  << Leaf("{", "", <<"{">>, 0, 0) >> \o CommaSep(elems)
                     \o << Leaf("}", "", <<"}">>, 0, 0) >>)

\* The node of `@Svc`, `@Svc(value)` or `@Svc(key = value, ...)`.
AnnotationNode(p) ==
    LET at   == Leaf("@", "", <<"@">>, 0, 0)
        name == Leaf("identifier", "name", wSvc, 0, 0)
        pair(m) == LET v == ValueNode(m[2], "value")
                   IN  Node("element_value_pair", "", m[1] \o <<" ", "=", " ">> \o v.text,
                            <<0, 0>>, <<0, 0>>,
                            << Leaf("identifier", "key", m[1], 0, 0),
                               Leaf("=", "", <<"=">>, 0, 0), v >>)
        items == IF p.form = "bare" THEN << ValueNode(p.bare, "") >>
                 ELSE [i \in 1..Len(p.members) |-> pair(p.members[i])]
        args == Node("annotation_argument_list", "arguments",
                     <<"(">> \o Join(NodeTexts(items), <<",", " ">>) \o <<")">>,
                     <<0, 0>>, <<0, 0>>,
                     << Leaf("(", "", <<"(">>, 0, 0) >> \o CommaSep(items)
                        \o << Leaf(")", "", <<")">>, 0, 0) >>)
    IN  IF p.form = "marker"
        THEN Node("marker_annotation", "", <<"@">> \o wSvc, <<0, 0>>, <<0, 0>>,
                  <<at, name>>)
        ELSE Node("annotation", "", <<"@">> \o wSvc \o args.text, <<0, 0>>, <<0, 0>>,
                  <<at, name, args>>)

LiteralKinds == {"string_literal", "number_literal", "true", "false", "null"}

\* The loop of extract_annotation_values over the children of an array
\* initializer that is itself an argument.
RECURSIVE ArrayValues(_, _)
ArrayValues(children, values) ==
    IF children = <<>> THEN values
    ELSE ArrayValues(Tail(children),
            IF Head(children).kind \in {"string_literal", "identifier"}
            THEN Append(values, <<wValue, Head(children).text>>)
            ELSE values)

\* The loop of extract_annotation_values over the children of the arguments.
RECURSIVE ArgumentValues(_, _)
ArgumentValues(children, values) ==
    IF children = <<>> THEN values
    ELSE LET child == Head(children)
             key   == ChildByFieldName(child, "key")
             value == ChildByFieldName(child, "value")
             trimmed == Trim(child.text)
             next  ==
               CASE child.kind = "element_value_pair" ->
                        IF IsSome(key) /\ IsSome(value)
                        THEN Append(values, <<key[1].text, value[1].text>>)
                        ELSE values
                 [] child.kind \in LiteralKinds \cup {"identifier"} ->
                        Append(values, <<wValue, child.text>>)
                 [] child.kind = "element_value_array_initializer" ->
                        ArrayValues(child.children, values)
                 [] OTHER ->
                        IF trimmed # <<>>
                           /\ trimmed \notin {<<"(">>, <<")">>, <<",">>, <<"{">>}
                        THEN Append(values, <<wValue, trimmed>>)
                        ELSE values
         IN  ArgumentValues(Tail(children), next)

\* The loop of extract_annotation_values over the children of an annotation
\* without an arguments field.
RECURSIVE LiteralChildren(_, _)
LiteralChildren(children, values) ==
    IF children = <<>> THEN values
    ELSE LiteralChildren(Tail(children),
            IF Head(children).kind \in LiteralKinds
            THEN Append(values, <<wValue, Head(children).text>>)
            ELSE values)

\* JavaStructureParser::extract_annotation_values
ExtractAnnotationValues(node) ==
    LET arguments == ChildByFieldName(node, "arguments")
    IN  IF IsSome(arguments) THEN ArgumentValues(arguments[1].children, <<>>)
        ELSE LiteralChildren(node.children, <<>>)

\* extract_annotation_values on the annotation node.
ExtractValues ==
    /\ parse.pc = "annotation"
    /\ parse' = [parse EXCEPT !.pc = "values",
                              !.values = ExtractAnnotationValues(parse.src)]
    /\ UNCHANGED <<idxVars, qVars, docVars, statVars, batchVars, graphVars>>

(***************************************************************************)
(* The modifiers of a type declaration, by both parsers                    *)
(***************************************************************************)
\* `@Svc("a final b")`: an annotation whose argument is a string literal.
SvcWithText ==
    <<"@">> \o wSvc \o <<"(", "\"", "a">> \o Sp \o wFinal \o Sp \o <<"b", "\"", ")">>

\* What varies between the declarations: the kind, the annotations written
\* before the modifiers, and the modifier keywords (each at most once).
ModifierParams ==
    [kind  : DeclarationKinds,
     annos : {<<>>, << <<"@">> \o wSvc >>, <<SvcWithText>>},
     mods  : {m \in SeqsUpTo({wPublic, wFinal, ModifierTokens[6][2], ModifierTokens[4][2]},
                             MaxModifiers) :
                 \A i, j \in 1..Len(m) : i # j => m[i] # m[j]}]

\* JavaParser::get_modifiers on the declaration node.
ScanDeclaration ==
    /\ parse.pc = "declaration"
    /\ parse.scanned = None
    /\ parse' = [parse EXCEPT !.scanned = Some(GetModifiers(parse.src))]
    /\ UNCHANGED <<idxVars, qVars, docVars, statVars, batchVars, graphVars>>

\* JavaStructureParser::extract_modifiers on the declaration node.
ExtractFromDeclaration ==
    /\ parse.pc = "declaration"
    /\ parse.extracted = None
    /\ parse' = [parse EXCEPT !.extracted = Some(ExtractModifiers(parse.src))]
    /\ UNCHANGED <<idxVars, qVars, docVars, statVars, batchVars, graphVars>>

(***************************************************************************)
(* A source file through the parsers and the index                         *)
(***************************************************************************)
NoParse == [pc |-> "off", params |-> <<>>, src |-> <<>>, file |-> <<>>,
            structure |-> <<>>, docs |-> <<>>, back |-> <<>>, values |-> <<>>,
            scanned |-> None, extracted |-> None]

\* JavaParser::parse_file on the source file.
ParseJavaFile ==
    /\ parse.pc = "source"
    /\ parse' = [parse EXCEPT !.pc = "parsed", !.file = ParseFile(parse.src)]
    /\ UNCHANGED <<idxVars, qVars, docVars, statVars, batchVars, graphVars>>

\* JavaStructureParser::parse_structure on the source file.
ParseStructure ==
    /\ parse.pc = "source"
    /\ parse' = [parse EXCEPT !.pc = "structure",
                              !.structure = ExtractStructure(parse.src)]
    /\ UNCHANGED <<idxVars, qVars, docVars, statVars, batchVars, graphVars>>

\* index_java_file on the parsed file: the documents its loop adds.
IndexParsed ==
    /\ parse.pc = "parsed"
    /\ parse' = [parse EXCEPT !.pc = "indexed",
                    !.docs = [i \in 1..Len(parse.file.declarations) |->
                                 CreateDocument(parse.file.declarations[i], parse.file)]]
    /\ UNCHANGED <<idxVars, qVars, docVars, statVars, batchVars, graphVars>>

\* document_to_result on each of these documents.
RestoreParsed ==
    /\ parse.pc = "indexed"
    /\ parse' = [parse EXCEPT !.pc = "restored",
                    !.back = [i \in 1..Len(parse.docs) |->
                                 CreateDeclarationFromDoc(parse.docs[i])]]
    /\ UNCHANGED <<idxVars, qVars, docVars, statVars, batchVars, graphVars>>

(***************************************************************************)
(* AsyncProcessor (src/src/async/mod.rs)                                   *)
(*                                                                         *)
(* One call of process_project_async or process_with_backpressure.  A      *)
(* discovered file is its position in java_files; what the environment     *)
(* decides about it is whether process_single_file returns Ok for it and   *)
(* whether index_java_file returns Ok for it.                              *)
(***************************************************************************)
MaxBatchFiles == 3      \* discovered .java files
MaxPermits    == 2      \* max_concurrent_files handed to AsyncProcessor::new
MaxBatchSize  == 2      \* batch_size handed to process_with_backpressure

\* mpsc::channel(1000) of process_project_async.
ChannelCapacity == 1000

FileOutcomes == {[parse |-> TRUE,  index |-> TRUE],
                 [parse |-> TRUE,  index |-> FALSE],
                 [parse |-> FALSE, index |-> TRUE]}

\* ProcessingStats::new.
NewStats == [processed_files |-> 0, error_files |-> 0]

IncrementProcessed(stats) == [stats EXCEPT !.processed_files = @ + 1]

IncrementErrors(stats) == [stats EXCEPT !.error_files = @ + 1]

\* slice::chunks(size) over the positions 1..n; size > 0.
Chunks(n, size) ==
    [c \in 1..((n + size - 1) \div size) |->
        [i \in 1..(IF c * size <= n THEN size ELSE n - (c - 1) * size) |->
            (c - 1) * size + i]]

NoBatch == [pc |-> "off", mode |-> "off", max_concurrent_files |-> 0,
            batch_size |-> 0, java_files |-> <<>>, tasks |-> <<>>, permits |-> 0,
            channel |-> <<>>, senders |-> 0,
            indexer |-> [pc |-> "off", processed |-> 0, cur |-> <<>>],
            stats |-> NewStats, indexed |-> <<>>]

\* AsyncProcessor::new followed by the discovery of the .java files.
NewProcessor(mode, max_files, size, files) ==
    [NoBatch EXCEPT !.pc = "start", !.mode = mode,
                    !.max_concurrent_files = max_files, !.batch_size = size,
                    !.java_files = files, !.permits = max_files]

\* The end of one iteration of a chunk task's loop: _permit is dropped, and
\* after the last file the task ends and drops its clone of tx.
NextFile(b, t) ==
    LET task == b.tasks[t]
        last == task.pos = Len(task.chunk)
    IN  [b EXCEPT !.permits = @ + 1,
                  !.senders = IF last THEN @ - 1 ELSE @,
                  !.tasks[t] = [task EXCEPT !.pos = @ + 1,
                                   !.pc = IF last THEN "done" ELSE "acquire"]]

\* process_project_async up to the spawn of the indexer task.
ProcessProjectAsync ==
    /\ batch.pc = "start" /\ batch.mode = "async"
    /\ batch' =
         IF batch.max_concurrent_files = 0
         THEN [batch EXCEPT !.pc = "panicked"]     \* division by zero, line 46
         ELSE LET files_chunk_size ==
                      IF Len(batch.java_files) \div batch.max_concurrent_files >= 1
                      THEN Len(batch.java_files) \div batch.max_concurrent_files
                      ELSE 1
                  chunks == Chunks(Len(batch.java_files), files_chunk_size)
              IN  [batch EXCEPT !.pc = "join",
                      !.tasks = [c \in 1..Len(chunks) |->
                                    [chunk |-> chunks[c], pos |-> 1, pc |-> "acquire"]],
                      !.senders = Len(chunks) + 1,
                      !.indexer.pc = "recv"]
    /\ UNCHANGED <<idxVars, qVars, docVars, statVars, parseVars, graphVars>>

\* An acquire() that is granted whatever the number of permits left.
AcquirePermitUnguarded(t) ==
    /\ batch.mode = "async"
    /\ t \in 1..Len(batch.tasks)
    /\ batch.tasks[t].pc = "acquire"
    /\ batch' = [batch EXCEPT !.tasks[t].pc = "parse"]
    /\ UNCHANGED <<idxVars, qVars, docVars, statVars, parseVars, graphVars>>

\* semaphore.acquire().await in a chunk task.
AcquirePermit(t) ==
    /\ batch.mode = "async"
    /\ t \in 1..Len(batch.tasks)
    /\ batch.tasks[t].pc = "acquire"
    /\ batch.permits > 0
    /\ batch' = [batch EXCEPT !.permits = @ - 1, !.tasks[t].pc = "parse"]
    /\ UNCHANGED <<idxVars, qVars, docVars, statVars, parseVars, graphVars>>

\* process_single_file in a chunk task, and the Err arm of its match.
ProcessSingleFile(t) ==
    /\ batch.mode = "async"
    /\ t \in 1..Len(batch.tasks)
    /\ batch.tasks[t].pc = "parse"
    /\ LET task == batch.tasks[t]
           file == batch.java_files[task.chunk[task.pos]]
       IN  batch' =
             IF file.parse
             THEN [batch EXCEPT !.tasks[t].pc = "send"]
             ELSE NextFile([batch EXCEPT !.stats = IncrementErrors(@)], t)
    /\ UNCHANGED <<idxVars, qVars, docVars, statVars, parseVars, graphVars>>

\* tx.send(Ok(java_file)).await in a chunk task.
SendParsed(t) ==
    /\ batch.mode = "async"
    /\ t \in 1..Len(batch.tasks)
    /\ batch.tasks[t].pc = "send"
    /\ Len(batch.channel) < ChannelCapacity
    /\ LET task == batch.tasks[t]
       IN  batch' = [batch EXCEPT
                       !.channel = Append(@, [file |-> task.chunk[task.pos], ok |-> TRUE]),
                       !.tasks[t].pc = "count"]
    /\ UNCHANGED <<idxVars, qVars, docVars, statVars, parseVars, graphVars>>

\* stats.lock().unwrap().increment_processed() after the send.
CountProcessed(t) ==
    /\ batch.mode = "async"
    /\ t \in 1..Len(batch.tasks)
    /\ batch.tasks[t].pc = "count"
    /\ batch' = NextFile([batch EXCEPT !.stats = IncrementProcessed(@)], t)
    /\ UNCHANGED <<idxVars, qVars, docVars, statVars, parseVars, graphVars>>

\* rx.recv().await in the indexer (consumer) task: the next message, or None
\* once every sender is dropped and the channel is empty.
Recv ==
    /\ batch.indexer.pc = "recv"
    /\ \/ /\ batch.channel # <<>>
          /\ batch' = [batch EXCEPT !.channel = Tail(@),
                                    !.indexer.cur = Head(batch.channel),
                                    !.indexer.pc = "index"]
       \/ /\ batch.channel = <<>> /\ batch.senders = 0
          /\ batch' = [batch EXCEPT !.indexer.pc = "done"]
    /\ UNCHANGED <<idxVars, qVars, docVars, statVars, parseVars, graphVars>>

\* The body of the indexer task's loop in process_project_async.
IndexerIndex ==
    /\ batch.mode = "async"
    /\ batch.indexer.pc = "index"
    /\ LET msg == batch.indexer.cur
           ok  == msg.ok /\ batch.java_files[msg.file].index
       IN  batch' = [batch EXCEPT
                       !.indexer.pc = "recv",
                       !.indexer.processed = IF ok THEN @ + 1 ELSE @,
                       !.indexed = IF ok THEN Append(@, msg.file) ELSE @]
    /\ UNCHANGED <<idxVars, qVars, docVars, statVars, parseVars, graphVars>>

\* join_set.join_next() until None, then drop(tx).
JoinAll ==
    /\ batch.pc = "join"
    /\ \A t \in 1..Len(batch.tasks) : batch.tasks[t].pc = "done"
    /\ batch' = [batch EXCEPT !.pc = "await", !.senders = @ - 1]
    /\ UNCHANGED <<idxVars, qVars, docVars, statVars, parseVars, graphVars>>

\* indexer_handle.await (consumer.await) and the return of the statistics.
ReturnStats ==
    /\ batch.pc = "await"
    /\ batch.indexer.pc = "done"
    /\ batch' = [batch EXCEPT !.pc = "returned"]
    /\ UNCHANGED <<idxVars, qVars, docVars, statVars, parseVars, graphVars>>

\* process_with_backpressure up to the spawn of the consumer task.
ProcessWithBackpressure ==
    /\ batch.pc = "start" /\ batch.mode = "backpressure"
    /\ batch' =
         IF batch.batch_size = 0
         THEN [batch EXCEPT !.pc = "panicked"]     \* mpsc::channel(0), line 165
         ELSE LET chunks == Chunks(Len(batch.java_files), batch.batch_size)
              IN  [batch EXCEPT !.pc = "producer",
                      !.tasks = [c \in 1..Len(chunks) |->
                                    [chunk |-> chunks[c], pos |-> 1, pc |-> "rayon"]],
                      !.senders = 1,
                      !.indexer.pc = "recv"]
    /\ UNCHANGED <<idxVars, qVars, docVars, statVars, parseVars, graphVars>>

\* The chunk the producer task is working on: the first one not yet sent.
CurrentChunk(b) ==
    LET open == {c \in 1..Len(b.tasks) : b.tasks[c].pc # "done"}
    IN  IF open = {} THEN 0 ELSE CHOOSE c \in open : \A d \in open : c <= d

\* process_files_rayon on the producer's current chunk.
ProcessFilesRayon ==
    /\ batch.pc = "producer"
    /\ CurrentChunk(batch) # 0
    /\ batch.tasks[CurrentChunk(batch)].pc = "rayon"
    /\ batch' = [batch EXCEPT !.tasks[CurrentChunk(batch)].pc = "send"]
    /\ UNCHANGED <<idxVars, qVars, docVars, statVars, parseVars, graphVars>>

\* tx.send(result).await.unwrap() for the next result of the current chunk.
SendResult ==
    /\ batch.pc = "producer"
    /\ CurrentChunk(batch) # 0
    /\ LET c    == CurrentChunk(batch)
           task == batch.tasks[c]
           f    == task.chunk[task.pos]
       IN  /\ task.pc = "send"
           /\ Len(batch.channel) < batch.batch_size
           /\ batch' = [batch EXCEPT
                          !.channel = Append(@, [file |-> f,
                                                 ok |-> batch.java_files[f].parse]),
                          !.tasks[c] = [task EXCEPT !.pos = @ + 1,
                              !.pc = IF task.pos = Len(task.chunk) THEN "done" ELSE "send"]]
    /\ UNCHANGED <<idxVars, qVars, docVars, statVars, parseVars, graphVars>>

\* The producer task ends after its last chunk and drops tx; producer.await.
ProducerDone ==
    /\ batch.pc = "producer"
    /\ CurrentChunk(batch) = 0
    /\ batch' = [batch EXCEPT !.pc = "await", !.senders = 0]
    /\ UNCHANGED <<idxVars, qVars, docVars, statVars, parseVars, graphVars>>

\* The body of the consumer task's loop in process_with_backpressure.
ConsumerIndex ==
    /\ batch.mode = "backpressure"
    /\ batch.indexer.pc = "index"
    /\ LET msg == batch.indexer.cur
           ok  == msg.ok /\ batch.java_files[msg.file].index
       IN  batch' = [batch EXCEPT
                       !.indexer.pc = "recv",
                       !.indexer.processed = IF ok THEN @ + 1 ELSE @,
                       !.indexed = IF ok THEN Append(@, msg.file) ELSE @,
                       !.stats = IF ok THEN IncrementProcessed(@)
                                       ELSE IncrementErrors(@)]
    /\ UNCHANGED <<idxVars, qVars, docVars, statVars, parseVars, graphVars>>

(***************************************************************************)
(* GraphVisualizer::generate_focused_graph (src/src/graph/visualization.rs)*)
(***************************************************************************)
MaxEdges == 4     \* edges of the graph handed to generate_focused_graph
MaxDepth == 3     \* depth handed to generate_focused_graph

GraphNode(id) == [id |-> id, label |-> id, kind |-> "Class"]

GraphEdge(from, to) == [from |-> from, to |-> to, relationship |-> "Uses"]

ReferenceGraph(nodes, edges) == [nodes |-> nodes, edges |-> edges]

\* collect_neighbors: the recursion, and its loop over graph.edges from the
\* i-th edge on; `collected` is the set both of them extend.
RECURSIVE CollectNeighbors(_, _, _, _), CollectAlongEdges(_, _, _, _, _)
CollectNeighbors(g, node_id, depth, collected) ==
    IF depth = 0 \/ node_id \in collected THEN collected
    ELSE CollectAlongEdges(g, 1, node_id, depth, collected \cup {node_id})

CollectAlongEdges(g, i, node_id, depth, collected) ==
    IF i > Len(g.edges) THEN collected
    ELSE LET edge == g.edges[i]
             after == IF edge.from = node_id
                      THEN CollectNeighbors(g, edge.to, depth - 1, collected)
                      ELSE IF edge.to = node_id
                      THEN CollectNeighbors(g, edge.from, depth - 1, collected)
                      ELSE collected
         IN  CollectAlongEdges(g, i + 1, node_id, depth, after)

\* GraphVisualizer::generate_focused_graph
GenerateFocusedGraph(g, focus_node, depth) ==
    LET focused_nodes == CollectNeighbors(g, focus_node, depth, {})
    IN  ReferenceGraph(
            SelectSeq(g.nodes, LAMBDA node : node.id \in focused_nodes),
            SelectSeq(g.edges, LAMBDA edge : edge.from \in focused_nodes
                                             /\ edge.to \in focused_nodes))

(***************************************************************************)
(* GraphBuilder (src/src/graph/mod.rs)                                     *)
(***************************************************************************)
MaxReferences == 3    \* add_type_reference calls per run

TypeIds == {"A", "B", "C", "X", "Y"}

\* GraphBuilder::new, and no call of the visualizer.
NewBuilder == [pc |-> "builder", nodes |-> {}, edges |-> <<>>,
               type_references |-> {}, calls |-> 0, components |-> <<>>,
               input |-> <<>>, focus_node |-> "", depth |-> 0, focused |-> <<>>]

NoGraph == [NewBuilder EXCEPT !.pc = "off"]

\* type_references.get(node): the dependencies of a type, and the types that
\* depend on it. type_references is held as the set of its (from, to) pairs.
Dependencies(refs, node) == {r[2] : r \in {q \in refs : q[1] = node}}

Dependents(refs, node) == {r[1] : r \in {q \in refs : q[2] = node}}

\* bfs_component: the nodes its queue takes from `start`, given the visited
\* set; queue holds the nodes pushed and not yet popped.
RECURSIVE BfsComponent(_, _, _, _)
BfsComponent(refs, queue, visited, component) ==
    IF queue = {} THEN [visited |-> visited, component |-> component]
    ELSE LET node  == CHOOSE n \in queue : TRUE
             found == (Dependencies(refs, node) \cup Dependents(refs, node)) \ visited
         IN  BfsComponent(refs, (queue \ {node}) \cup found, visited \cup found,
                          component \cup {node})

\* The loop of get_components over self.nodes.keys() in the given order.
RECURSIVE ComponentsFrom(_, _, _, _)
ComponentsFrom(refs, keys, visited, components) ==
    IF keys = <<>> THEN components
    ELSE IF Head(keys) \in visited
    THEN ComponentsFrom(refs, Tail(keys), visited, components)
    ELSE LET bfs == BfsComponent(refs, {Head(keys)}, visited \cup {Head(keys)}, {})
         IN  ComponentsFrom(refs, Tail(keys), bfs.visited,
                            Append(components, bfs.component))

\* The orders in which a HashMap may give its keys.
KeyOrders(keys) ==
    {order \in [1..Cardinality(keys) -> keys] :
        \A i, j \in 1..Cardinality(keys) : i # j => order[i] # order[j]}

\* GraphBuilder::add_type_reference
AddTypeReference(from_type, to_type) ==
    /\ graph.pc = "builder"
    /\ graph.calls < MaxReferences
    /\ graph' = [graph EXCEPT !.calls = @ + 1,
                              !.type_references = @ \cup {<<from_type, to_type>>}]
    /\ UNCHANGED <<idxVars, qVars, docVars, statVars, parseVars, batchVars>>

\* GraphBuilder::add_declaration for a declaration of the given name in the
\* file /name.java, with its superclass if it has one.
AddDeclaration(name, extends) ==
    /\ graph.pc = "builder"
    /\ graph.calls < MaxReferences
    /\ LET node_id == "/" \o name \o ".java:" \o name
       IN  graph' = [graph EXCEPT
                       !.calls = @ + 1,
                       !.nodes = @ \cup {node_id},
                       !.edges = IF IsSome(extends)
                                 THEN Append(@, GraphEdge(node_id, "extends:" \o extends[1]))
                                 ELSE @]
    /\ UNCHANGED <<idxVars, qVars, docVars, statVars, parseVars, batchVars>>

\* GraphBuilder::get_components
GetComponents ==
    /\ graph.pc = "builder"
    /\ \E keys \in KeyOrders(graph.nodes) :
          graph' = [graph EXCEPT !.pc = "components",
                       !.components = ComponentsFrom(graph.type_references, keys, {}, <<>>)]
    /\ UNCHANGED <<idxVars, qVars, docVars, statVars, parseVars, batchVars>>

\* generate_focused_graph on the graph, focus node and depth of the call.
FocusGraph ==
    /\ graph.pc = "visualizer"
    /\ graph' = [graph EXCEPT !.pc = "focused",
                    !.focused = GenerateFocusedGraph(graph.input, graph.focus_node,
                                                     graph.depth)]
    /\ UNCHANGED <<idxVars, qVars, docVars, statVars, parseVars, batchVars>>

(***************************************************************************)
(* Specifications                                                          *)
(***************************************************************************)
IdxInit ==
    /\ committed \in InitialIndexes
    /\ loaded = committed
    /\ pending = {}
    /\ pendingDel = {}
    /\ writerLock = NoTask
    /\ calls = 0
    /\ wtask = [w \in Writers |-> IdleWriter]
    /\ log = IF committed = {} THEN <<>> ELSE <<EarlierIndexing>>
    /\ lastWrite = NoWrite
    /\ rtask = [r \in Readers |-> IdleReader]
    /\ reads = 0

QInit ==
    /\ cache = <<>>
    /\ qtask = [t \in Engines |-> IdleEngine]
    /\ searches = 0
    /\ qlog = <<>>
    /\ qlast = NoCall

StatOff == stat = NoStat
ParseOff == parse = NoParse
BatchOff == batch = NoBatch
GraphOff == graph = NoGraph

DocOff ==
    /\ dDecl = NoValue
    /\ dDoc = NoValue
    /\ dBack = NoValue
    /\ dpc = "off"

\* ---- The index manager under concurrent write calls ----
Init == IdxInit /\ QInit /\ DocOff /\ StatOff /\ ParseOff /\ BatchOff /\ GraphOff

Next ==
    \/ \E w \in Writers, f \in FileIds : IndexJavaFile(w, f)
    \/ \E w \in Writers : AddDocument(w)
    \/ \E w \in Writers : AddDocumentFails(w)
    \/ \E w \in Writers, h \in Hashes : DeleteByHash(w, h)
    \/ \E w \in Writers : DeleteTerm(w)
    \/ \E w \in Writers : Optimize(w)
    \/ \E w \in Writers : Commit(w)
    \/ Reload
    \/ \E r \in Readers : Stats(r)

Spec == Init /\ [][Next]_vars

\* ---- Searches of the index manager while one task writes ----
IdxQueries ==
    {SearchQuery(wFoo, "Exact", <<>>, Some(1)),
     SearchQuery(wBaz, "Exact", <<>>, None),
     SearchQuery(wBar, "Regex", <<>>, None),
     SearchQuery(LowerStr(wBaz), "Fuzzy", <<>>, None)}

MaxSoloWrites == 1    \* write calls per run of the single writing task

SoloWriter == "w1"

SpecReadInit == IdxInit /\ QInit /\ DocOff /\ StatOff /\ ParseOff /\ BatchOff /\ GraphOff

SpecReadNext ==
    \/ \E f \in FileIds : calls < MaxSoloWrites /\ IndexJavaFile(SoloWriter, f)
    \/ AddDocument(SoloWriter)
    \/ \E h \in Hashes : calls < MaxSoloWrites /\ DeleteByHash(SoloWriter, h)
    \/ DeleteTerm(SoloWriter)
    \/ Commit(SoloWriter)
    \/ Reload
    \/ \E r \in Readers, q \in IdxQueries : SearchAcquire(r, q)
    \/ \E r \in Readers : SearchCollect(r)
    \/ \E r \in Readers : Stats(r)

SpecRead == SpecReadInit /\ [][SpecReadNext]_vars

\* ---- The query engine over its index manager ----
EngineQueries ==
    {SearchQuery(wFoo, "Exact", fs, lim) :
        fs \in {<<>>, <<KindFilter("Interface")>>}, lim \in {None, Some(1)}}
    \cup {SearchQuery(wFoo, "Regex", <<>>, None)}

SpecQInit == IdxInit /\ QInit /\ DocOff /\ StatOff /\ ParseOff /\ BatchOff /\ GraphOff

SpecQNext ==
    \/ \E t \in Engines, q \in EngineQueries : Search(t, q)
    \/ \E t \in Engines : CacheInsert(t)
    \/ ClearCache
    \/ \E f \in FileIds : calls < MaxSoloWrites /\ IndexJavaFile(SoloWriter, f)
    \/ AddDocument(SoloWriter)
    \/ \E h \in Hashes : calls < MaxSoloWrites /\ DeleteByHash(SoloWriter, h)
    \/ DeleteTerm(SoloWriter)
    \/ Commit(SoloWriter)
    \/ Reload

SpecQ == SpecQInit /\ [][SpecQNext]_vars

\* ---- An engine whose reader has loaded the index of earlier runs ----
LoadedIndex(indexes) ==
    /\ committed \in indexes
    /\ loaded = committed
    /\ pending = {}
    /\ pendingDel = {}
    /\ writerLock = NoTask
    /\ calls = 0
    /\ wtask = [w \in Writers |-> IdleWriter]
    /\ log = <<>>
    /\ lastWrite = NoWrite
    /\ rtask = [r \in Readers |-> IdleReader]
    /\ reads = 0

\* get_statistics: the index holds any of the declarations of File3.
StatIndexes == SUBSET FileEntries(0, 3)

SpecStatInit ==
    /\ LoadedIndex(StatIndexes)
    /\ QInit
    /\ DocOff
    /\ stat = [NoStat EXCEPT !.pc = "idle"]
    /\ ParseOff /\ BatchOff /\ GraphOff

SpecStatNext ==
    \/ GetStatistics
    \/ StatKind
    \/ ClearCache

SpecStat == SpecStatInit /\ [][SpecStatNext]_vars

\* search: the index holds any of Foo and Bar of File3 and, added after them,
\* Baz of File2.
SearchIndexes ==
    SUBSET {Entry(0, 1, 3), Entry(0, 2, 3), Entry(1, 1, 2)}

\* One search of each kind, each with two hits in the full index, the Exact
\* one again with a kind filter and an annotation filter, and a Fuzzy one
\* typed in capitals.
SearchQueries ==
    {SearchQuery(wBar, "Exact", <<>>, None),
     SearchQuery(wBar, "Exact", <<KindFilter("Class"), AnnotationFilter(wSvc)>>, None),
     SearchQuery(wFoo \o Sp \o wBaz, "Regex", <<>>, None),
     SearchQuery(LowerStr(wBaz), "Fuzzy", <<>>, None),
     SearchQuery(<<"B","A","Z">>, "Fuzzy", <<>>, None)}

SpecSearchInit == LoadedIndex(SearchIndexes) /\ QInit /\ DocOff /\ StatOff /\ ParseOff /\ BatchOff /\ GraphOff

SpecSearchNext ==
    \/ \E t \in Engines, q \in SearchQueries : Search(t, q)
    \/ \E t \in Engines : CacheInsert(t)
    \/ ClearCache

SpecSearch == SpecSearchInit /\ [][SpecSearchNext]_vars

\* ---- A source file parsed, indexed and read back ----
SpecParseInit ==
    /\ LoadedIndex({{}}) /\ QInit /\ DocOff /\ StatOff /\ BatchOff /\ GraphOff
    /\ \E p \in SourceParams :
          parse = [NoParse EXCEPT !.pc = "source", !.params = p, !.src = Source(p)]

SpecParseNext ==
    \/ ParseJavaFile
    \/ ParseStructure
    \/ IndexParsed
    \/ RestoreParsed

SpecParse == SpecParseInit /\ [][SpecParseNext]_vars

\* ---- Searches and statistics on one engine, in any order ----
\* Indexes holding some of class Foo, interface Bar and annotation type Ann.
HistoryIndexes == SUBSET {Entry(0, 1, 3), Entry(0, 2, 3), Entry(0, 5, 3)}

\* Exact searches for the names of kinds, and the wrappers search_by_kind,
\* search_by_annotation and search_by_package.
HistoryQueries ==
    {SearchQuery(DebugText("Class"), "Exact", <<>>, None),
     SearchQuery(DebugText("Interface"), "Exact", <<>>, None),
     SearchByKind("Interface", None),
     SearchQuery(wSvc, "Exact", <<AnnotationFilter(wSvc)>>, None),
     SearchQuery(wPkg, "Exact", <<PackageFilter(wPkg)>>, None)}

SpecHistoryInit ==
    /\ LoadedIndex(HistoryIndexes) /\ QInit /\ DocOff
    /\ stat = [NoStat EXCEPT !.pc = "idle"]
    /\ ParseOff /\ BatchOff /\ GraphOff

SpecHistoryNext ==
    \/ \E t \in Engines, q \in HistoryQueries : Search(t, q)
    \/ \E t \in Engines : CacheInsert(t)
    \/ GetStatistics
    \/ StatKind

SpecHistory == SpecHistoryInit /\ [][SpecHistoryNext]_vars

\* ---- IndexManager::search against indexes larger than the limit ----
\* One document more than the default limit: the documents of DefaultLimit + 1
\* index_java_file calls on File2.
ManyDocuments == UNION {FileEntries(c, 2) : c \in 0..DefaultLimit}

LimitIndexes == (SUBSET FileEntries(0, 3)) \cup {ManyDocuments}

LimitQueries ==
    {SearchQuery(q[1], q[2], <<>>, lim) :
        q \in {<<wBaz, "Exact">>, <<wPublic, "Exact">>, <<wCol, "Regex">>,
               <<LowerStr(wRec), "Fuzzy">>},
        lim \in {None, Some(1), Some(2)}}

SpecLimitInit ==
    LoadedIndex(LimitIndexes) /\ QInit /\ DocOff /\ StatOff /\ ParseOff
        /\ BatchOff /\ GraphOff

SpecLimitNext ==
    \/ \E r \in Readers, q \in LimitQueries : SearchAcquire(r, q)
    \/ \E r \in Readers : SearchCollect(r)

SpecLimit == SpecLimitInit /\ [][SpecLimitNext]_vars

\* ---- One call of the asynchronous processor ----
SpecBatchInit ==
    /\ LoadedIndex({{}}) /\ QInit /\ DocOff /\ StatOff /\ ParseOff /\ GraphOff
    /\ \E files \in SeqsUpTo(FileOutcomes, MaxBatchFiles) :
          \/ \E max_files \in 0..MaxPermits :
                batch = NewProcessor("async", max_files, 0, files)
          \/ \E size \in 0..MaxBatchSize :
                batch = NewProcessor("backpressure", MaxPermits, size, files)

SpecBatchNext ==
    \/ ProcessProjectAsync
    \/ \E t \in 1..MaxBatchFiles : AcquirePermit(t)
    \/ \E t \in 1..MaxBatchFiles : ProcessSingleFile(t)
    \/ \E t \in 1..MaxBatchFiles : SendParsed(t)
    \/ \E t \in 1..MaxBatchFiles : CountProcessed(t)
    \/ Recv
    \/ IndexerIndex
    \/ JoinAll
    \/ ReturnStats
    \/ ProcessWithBackpressure
    \/ ProcessFilesRayon
    \/ SendResult
    \/ ProducerDone
    \/ ConsumerIndex

SpecBatch == SpecBatchInit /\ [][SpecBatchNext]_vars

\* The runtime runs a task that is ready: some enabled step is taken.
SpecBatchLive == SpecBatch /\ WF_vars(SpecBatchNext)

\* ---- Annotation values ----
SpecAnnoInit ==
    /\ LoadedIndex({{}}) /\ QInit /\ DocOff /\ StatOff /\ BatchOff /\ GraphOff
    /\ \E p \in AnnotationParams :
          parse = [NoParse EXCEPT !.pc = "annotation", !.params = p,
                                  !.src = AnnotationNode(p)]

SpecAnnoNext == ExtractValues

SpecAnno == SpecAnnoInit /\ [][SpecAnnoNext]_vars

\* ---- The modifiers of a declaration ----
SpecModsInit ==
    /\ LoadedIndex({{}}) /\ QInit /\ DocOff /\ StatOff /\ BatchOff /\ GraphOff
    /\ \E p \in ModifierParams :
          parse = [NoParse EXCEPT !.pc = "declaration", !.params = p,
                      !.src = TypeNode(p.kind, p.annos \o p.mods, wFoo, None, <<>>,
                                       <<>>, 0, 0)]

SpecModsNext == ScanDeclaration \/ ExtractFromDeclaration

SpecMods == SpecModsInit /\ [][SpecModsNext]_vars

\* ---- A focused graph ----
FocusNodes == <<"A", "B", "C", "D">>

\* The edges a graph over FocusNodes is drawn from.
FocusEdges ==
    {GraphEdge(FocusNodes[p[1]], FocusNodes[p[2]]) :
        p \in {q \in (1..4) \X (1..4) : q[1] < q[2] \/ q = <<2, 1>>}}

SpecFocusInit ==
    /\ LoadedIndex({{}}) /\ QInit /\ DocOff /\ StatOff /\ ParseOff /\ BatchOff
    /\ \E edges \in SeqsUpTo(FocusEdges, MaxEdges), focus \in {"A", "B"},
          depth \in 0..MaxDepth :
          graph = [NoGraph EXCEPT !.pc = "visualizer",
                      !.input = ReferenceGraph([i \in 1..4 |-> GraphNode(FocusNodes[i])],
                                               edges),
                      !.focus_node = focus, !.depth = depth]

SpecFocusNext == FocusGraph

SpecFocus == SpecFocusInit /\ [][SpecFocusNext]_vars

\* ---- A graph builder ----
SpecGraphInit ==
    /\ LoadedIndex({{}}) /\ QInit /\ DocOff /\ StatOff /\ ParseOff /\ BatchOff
    /\ graph = NewBuilder

SpecGraphNext ==
    \/ \E from_type, to_type \in TypeIds : AddTypeReference(from_type, to_type)
    \/ \E name \in {"A", "X"}, extends \in {None, Some("B")} :
          AddDeclaration(name, extends)
    \/ GetComponents

SpecGraph == SpecGraphInit /\ [][SpecGraphNext]_vars

\* ---- The document round trip ----
SpecDocInit ==
    /\ IdxInit /\ committed = {}
    /\ QInit
    /\ dDecl \in DocInputs
    /\ dDoc = NoValue
    /\ dBack = NoValue
    /\ dpc = "decl"
    /\ StatOff /\ ParseOff /\ BatchOff /\ GraphOff

SpecDocNext == DocCreate \/ DocRestore

SpecDoc == SpecDocInit /\ [][SpecDocNext]_vars

(***************************************************************************)
(* Properties of the query engine (checked under SpecQ)                    *)
(***************************************************************************)
\* What a search of the index computes for a query from a set of entries.
FreshResults(entries, query) ==
    {FilterAndSort(ResultsOf(top), query) : top \in TopDocs(entries, query)}

\* C1: every result a search(q) call returns satisfies every filter of
\* q.filters, whether the results come from the cache or from the index.
C1_FiltersAppliedOnEveryCall ==
    qlast.pc = "returned" =>
        \A i \in 1..Len(qlast.results) :
            \A j \in 1..Len(qlast.query.filters) :
                SatisfiesFilter(qlast.results[i], qlast.query.filters[j])

\* C2: the cache key is (kind, query string) only. A search that starts when
\* an earlier search with the same kind and query string has cached its result
\* returns exactly that result, which holds no more entries than the limit of
\* the call that cached it, whatever its own limit is.
C2_CachedSetIgnoresLimit ==
    (qlast.pc = "returned" /\ IsSome(qlast.prior)) =>
        /\ qlast.hit
        /\ qlast.results = qlast.prior[1].results
        /\ Len(qlast.results) <= LimitOf(qlast.prior[1].by)

\* A search without a limit answered from the entry a search with limit 1
\* cached, while the index holds two matches for it.
C2_Witness ==
    /\ qlast.pc = "returned"
    /\ IsSome(qlast.prior)
    /\ qlast.query.limit = None
    /\ qlast.prior[1].by.limit = Some(1)
    /\ qlast.query.filters = qlast.prior[1].by.filters
    /\ Len(qlast.results) = 1
    /\ \A fresh \in FreshResults(loaded, qlast.query) : Len(fresh) = 2

C13_ResultsOrderedByKind ==
    qlast.pc = "returned" =>
        \A i \in 1..(Len(qlast.results) - 1) :
            LET a == qlast.results[i]
                b == qlast.results[i + 1]
            IN  /\ qlast.query.kind = "Exact" =>
                      StrLeq(a.declaration.name, b.declaration.name)
                /\ qlast.query.kind = "Regex" =>
                      PathLeq(a.file_path, b.file_path)
                /\ qlast.query.kind = "Fuzzy" => a.score >= b.score

\* A cached list of two results returned for a query whose hits the index
\* yields in another order.
C13_Witness ==
    /\ qlast.pc = "returned"
    /\ qlast.hit
    /\ Len(qlast.results) = 2
    /\ qlast.query.filters = <<>>
    /\ \E top \in TopDocs(loaded, qlast.query) :
          /\ Len(ResultsOf(top)) = 2
          /\ ResultsOf(top) = <<qlast.results[2], qlast.results[1]>>

\* C14: filters compose conjunctively. A search with the filters
\* [Kind(Class), Annotation(a)] returns only results whose declaration is a
\* class carrying an annotation whose name contains a, and the list a search
\* computes from the index is the sub-list of the hits that satisfy every
\* filter of the query, in the hits' relative order (before the sort).
C14_FiltersConjunctive ==
    qlast.pc = "returned" =>
        /\ qlast.query.filters = <<KindFilter("Class"), AnnotationFilter(wSvc)>> =>
              \A i \in 1..Len(qlast.results) :
                  /\ qlast.results[i].declaration.kind = "Class"
                  /\ \E k \in 1..Len(qlast.results[i].declaration.annotations) :
                        Contains(qlast.results[i].declaration.annotations[k].name, wSvc)
        /\ ~ qlast.hit =>
              \E top \in TopDocs(qlast.searcher, qlast.query) :
                  qlast.results =
                      SortResults(
                          SelectSeq(ResultsOf(top),
                                    LAMBDA r : \A j \in 1..Len(qlast.query.filters) :
                                        SatisfiesFilter(r, qlast.query.filters[j])),
                          qlast.query.kind)

\* C15: a Fuzzy search returns the document of every indexed declaration whose
\* name is at edit distance at most 2 from the query string, a transposition
\* counting as one edit.
C15_FuzzyWithinTwoEdits ==
    (qlast.pc = "returned" /\ qlast.query.kind = "Fuzzy") =>
        \A e \in loaded :
            EditDistance(qlast.query.query, GetText(DocOf(e), "name")) <= 2 =>
                \E i \in 1..Len(qlast.results) :
                    qlast.results[i] = DocumentToResult(DocOf(e))

(***************************************************************************)
(* Properties of the parsers (checked under SpecParse)                     *)
(***************************************************************************)
\* The kinds of the type declarations in a tree, at any depth.
RECURSIVE TypesIn(_)
TypesIn(node) ==
    (IF IsDeclaration(node.kind) THEN <<node.kind>> ELSE <<>>)
    \o Join([i \in 1..Len(node.children) |-> TypesIn(node.children[i])], <<>>)

\* C16: index_java_file builds one document per type declaration of the
\* source file, nested ones included: a file whose source holds k type
\* declarations at any depth gives k documents.
C16_OneDocumentPerType ==
    parse.pc \in {"indexed", "restored"} =>
        Len(parse.docs) = Len(TypesIn(parse.src.root))

\* The comment right before the i-th child of parent when it is a doc comment.
AdjacentDoc(parent, i) ==
    IF /\ i > 1
       /\ parent.children[i - 1].kind \in {"comment", "line_comment", "block_comment"}
       /\ StartsWith(parent.children[i - 1].text, <<"/", "*", "*">>)
    THEN Some(parent.children[i - 1].text)
    ELSE None

\* C17: the documentation of a type declaration is the "/**" comment that is
\* its immediately preceding sibling, and None when there is none there (a
\* "/**" comment further up, behind another sibling, is not associated), for
\* both parsers.
C17_DocumentationIsAdjacentComment ==
    LET root == parse.src.root
        want == AdjacentDoc(root, Len(root.children))
    IN  /\ parse.pc = "parsed" =>
              \A i \in 1..Len(parse.file.declarations) :
                  parse.file.declarations[i].documentation = want
        /\ parse.pc = "structure" =>
              \A i \in 1..Len(parse.structure.top_level_classes) :
                  parse.structure.top_level_classes[i].documentation = want

\* The classes of a structure with their nested classes, flattened.
RECURSIVE AllClasses(_)
AllClasses(classes) ==
    Join([i \in 1..Len(classes) |->
             <<classes[i]>> \o AllClasses(classes[i].nested_classes)], <<>>)

\* The fully-qualified segment of a declaration name in a file of package P.
Qualified(package, name) ==
    IF package = <<>> THEN name ELSE package \o <<".">> \o name

\* C18: in a file of package P the fully-qualified segment of declaration X is
\* "P.X", and "X" when the file has no package; the signature is the
\* modifiers in source order, the kind keyword and that segment; the fqn of a
\* nested declaration uses the file's package in the same way.
C18_FullyQualifiedNames ==
    /\ parse.pc = "parsed" =>
          \A i \in 1..Len(parse.file.declarations) :
              LET d == parse.file.declarations[i]
              IN  d.signature =
                      Join(<<wPublic, wFinal, KindKeyword(parse.params.kind),
                             Qualified(parse.params.pkg, d.name)>>, Sp)
    /\ parse.pc = "structure" =>
          \A i \in 1..Len(AllClasses(parse.structure.top_level_classes)) :
              LET c == AllClasses(parse.structure.top_level_classes)[i]
              IN  c.fqn = Qualified(parse.params.pkg, c.name)

\* extends and implements of the top-level declaration d are well-formed for
\* the source it came from.
InheritanceWellFormed(d) ==
    /\ d.extends = None <=> ~ parse.params.ext
    /\ parse.params.ext => d.extends = Some(TypeNames[1])
    /\ \A i \in 1..Len(d.implements) : d.implements[i] # <<>>
    /\ parse.params.impls = 0 => d.implements = <<>>

\* C19: for every declaration handed over by a parser or rebuilt from the
\* index, extends is None exactly when the declaration has no superclass
\* clause (Some(name) when it has one), and implements holds no empty string
\* and is empty when there is no interfaces clause.
C19_InheritanceWellFormed ==
    /\ parse.pc = "parsed" =>
          \A i \in 1..Len(parse.file.declarations) :
              InheritanceWellFormed(parse.file.declarations[i])
    /\ parse.pc = "structure" =>
          \A i \in 1..Len(parse.structure.top_level_classes) :
              InheritanceWellFormed(parse.structure.top_level_classes[i])
    /\ parse.pc = "restored" =>
          \A i \in 1..Len(parse.back) : InheritanceWellFormed(parse.back[i])

\* A range whose lines lie in the source file.
InFile(range) ==
    /\ 1 <= range.start_line
    /\ range.start_line <= range.end_line
    /\ range.end_line <= parse.src.lines

\* C20: every SourceRange of a declaration coming from a parser or rebuilt
\* from the index has 1 <= start_line <= end_line <= number of lines of the
\* file.
C20_RangesWithinFile ==
    /\ parse.pc = "parsed" =>
          \A i \in 1..Len(parse.file.declarations) :
              InFile(parse.file.declarations[i].range)
    /\ parse.pc = "structure" =>
          \A i \in 1..Len(AllClasses(parse.structure.top_level_classes)) :
              InFile(AllClasses(parse.structure.top_level_classes)[i].range)
    /\ parse.pc = "restored" =>
          \A i \in 1..Len(parse.back) : InFile(parse.back[i].range)

\* A declaration rebuilt from the index that starts after the first line of
\* its file and ends on the last one.
C20_Witness ==
    /\ parse.pc = "restored"
    /\ Len(parse.back) = 1
    /\ parse.back[1].range.start_line > 1
    /\ parse.back[1].range.start_line < parse.back[1].range.end_line
    /\ parse.back[1].range.end_line = parse.src.lines

\* The pairs a member yields: one per element of an array, in order, under
\* the member's key; one for a value that is not an array.
MemberPairs(m) == [i \in 1..Len(m[2].elems) |-> <<m[1], m[2].elems[i].text>>]

\* C23: for an annotation member key = {e1, ..., en} the extracted values hold
\* the n pairs (key, e1), ..., (key, en) in element order under the member's
\* own key, and a single bare value yields one pair keyed "value".
C23_ArrayMembersExpanded ==
    parse.pc = "values" =>
        CASE parse.params.form = "members" ->
                 parse.values = Join([i \in 1..Len(parse.params.members) |->
                                         MemberPairs(parse.params.members[i])], <<>>)
          [] parse.params.form = "bare" /\ ~ parse.params.bare.array ->
                 parse.values = << <<wValue, parse.params.bare.elems[1].text>> >>
          [] OTHER -> TRUE

\* C24: for every type declaration, scanning the tokens of the declaration
\* text up to the kind keyword and reading the children of the modifiers node
\* give the same list of modifiers in the same order.
C24_ModifierStrategiesAgree ==
    (parse.pc = "declaration" /\ IsSome(parse.scanned) /\ IsSome(parse.extracted))
        => parse.scanned = parse.extracted

\* C27: on a fixed index, what search(q) returns is what it returns on an
\* engine that was never called before, whatever get_statistics or wrapper
\* calls came earlier, and the per-kind counts of get_statistics are those of
\* an engine that was never called before, whatever exact searches for the
\* names of the kinds came earlier.
C27_ResultsIndependentOfHistory ==
    /\ qlast.pc = "returned" => qlast.results \in FreshResults(committed, qlast.query)
    /\ stat.pc = "done" =>
          \A i \in 1..Len(KindOrder) :
              stat.counts[i] \in {Len(fresh) : fresh \in
                                     FreshResults(committed, SearchByKind(KindOrder[i], None))}

(***************************************************************************)
(* Property of get_statistics (checked under SpecStat)                     *)
(***************************************************************************)
\* The documents of a kind in a set of index entries.
OfKind(entries, kind) == {e \in entries : GetText(DocOf(e), "kind") = DebugText(kind)}

\* C12: get_statistics reports the index's document count as
\* total_declarations and, for each kind, the number of indexed documents of
\* that kind (0 for every kind on an empty index).
C12_StatisticsCountKinds ==
    stat.pc = "done" =>
        /\ stat.total = Cardinality(stat.atStart)
        /\ \A i \in 1..Len(KindOrder) :
              stat.counts[i] = Cardinality(OfKind(stat.atStart, KindOrder[i]))

(***************************************************************************)
(* Properties of the index manager (checked under Spec and SpecRead)       *)
(***************************************************************************)
\* C4: a search or stats call that starts after index_java_file(f) returned Ok
\* observes the documents of f: its searcher holds every document the
\* committed index held when the call started, and stats counts them all.
C4_CommitVisibleToLaterReads ==
    \A r \in Readers :
        rtask[r].pc # "idle" =>
            /\ rtask[r].atStart \subseteq rtask[r].searcher
            /\ rtask[r].op = "stats" =>
                    rtask[r].num_docs >= Cardinality(rtask[r].atStart)

\* The views of the index a reader can hold.
Snapshots == {committed, loaded} \cup {rtask[r].searcher : r \in Readers}

C6_SnapshotIsolation ==
    \A r \in Readers :
        /\ rtask[r].pc = "searching" =>
              \E found \in {ResultsOf(top) :
                                top \in TopDocs(rtask[r].searcher, rtask[r].query)} :
                  ENABLED SearchReturn(r, found)
        /\ (rtask[r].pc # "searching" /\ reads < MaxReads) =>
              \A q \in IdxQueries : ENABLED SearchAcquire(r, q)
        /\ (rtask[r].pc = "done" /\ rtask[r].op = "search") =>
              \E top \in TopDocs(rtask[r].searcher, rtask[r].query) :
                  rtask[r].results = ResultsOf(top)

\* A finished search during which a commit was loaded: its results are those
\* of its own searcher and not any the reader's searcher at collection time
\* would give.
C6_Witness ==
    \E r \in Readers :
        /\ rtask[r].pc = "done" /\ rtask[r].op = "search"
        /\ rtask[r].results # <<>>
        /\ rtask[r].atCollect # rtask[r].searcher
        /\ \A top \in TopDocs(rtask[r].atCollect, rtask[r].query) :
              rtask[r].results # ResultsOf(top)

RECURSIVE ExpectedCopies(_, _)
ExpectedCopies(f, k) ==
    IF k = 0 THEN 0
    ELSE LET e    == log[k]
             prev == ExpectedCopies(f, k - 1)
         IN  IF ~ e.ok THEN prev
             ELSE IF e.op = "index" /\ e.file = f THEN prev + 1
             ELSE IF e.op = "delete" /\ e.hash = Files[f].source_hash THEN 0
             ELSE prev

Copies(S, doc) == Cardinality({e \in S : DocOf(e) = doc})

FailedIndexing(f) ==
    \E i \in 1..Len(log) : ~ log[i].ok /\ log[i].op = "index" /\ log[i].file = f

RECURSIVE SumOver(_, _)
SumOver(fs, k) ==
    IF fs = {} THEN 0
    ELSE LET f == CHOOSE x \in fs : TRUE
         IN  ExpectedCopies(f, k) * Len(Files[f].declarations) + SumOver(fs \ {f}, k)

C9_ExactSearchRoundTrip ==
    \A r \in Readers :
        (rtask[r].pc = "done" /\ rtask[r].op = "search" /\ rtask[r].query.kind = "Exact") =>
            ((\E e \in rtask[r].atStart : GetText(DocOf(e), "name") = rtask[r].query.query)
                => \E i \in 1..Len(rtask[r].results) :
                       rtask[r].results[i].declaration.name = rtask[r].query.query)

\* C11: when building the document of one declaration fails during
\* index_java_file, only that document is skipped: when the call returns,
\* the documents of the file's other declarations are committed, and the call
\* returns Ok with the count of skipped documents rather than the error.
C11_SkipFailedDocument ==
    lastWrite.op = "index" =>
        /\ lastWrite.ok
        /\ \A j \in 1..Len(Files[lastWrite.file].declarations) :
              j # lastWrite.next =>
                  Entry(lastWrite.call, j, lastWrite.file) \in lastWrite.after

\* The index_java_file calls that returned Err.
FailedCalls ==
    {log[i].call : i \in {k \in 1..Len(log) : ~ log[k].ok /\ log[k].op = "index"}}

\* C28: a failed write leaves the index unchanged. Once index_java_file has
\* returned Err, no document that call added is pending in the writer, and no
\* document that call added is ever in the committed index.
C28_FailedWriteLeavesNothing ==
    \A e \in pending \cup committed : e.call \notin FailedCalls

(***************************************************************************)
(* Property of the document round trip (checked under SpecDoc)             *)
(***************************************************************************)
\* C10: the declaration rebuilt from a document equals the declaration the
\* document was built from in name, kind, modifiers, annotation names,
\* extends, implements, fields, methods, source range and documentation.
C10_DocumentRoundTrip ==
    dpc = "back" =>
        /\ dBack.name = dDecl.name
        /\ dBack.kind = dDecl.kind
        /\ dBack.modifiers = dDecl.modifiers
        /\ AnnotationNames(dBack.annotations) = AnnotationNames(dDecl.annotations)
        /\ dBack.extends = dDecl.extends
        /\ dBack.implements = dDecl.implements
        /\ dBack.fields = dDecl.fields
        /\ dBack.methods = dDecl.methods
        /\ dBack.range = dDecl.range
        /\ dBack.documentation = dDecl.documentation

(***************************************************************************)
(* Properties of the asynchronous processor (checked under SpecBatch)      *)
(***************************************************************************)
\* The discovered files that were parsed and indexed successfully.
Succeeded(b) ==
    {f \in 1..Len(b.java_files) : b.java_files[f].parse /\ b.java_files[f].index}

\* C21: when process_project_async or process_with_backpressure returns,
\* processed_files + error_files is the number of discovered .java files,
\* processed_files counts exactly the files that were parsed and indexed
\* successfully, and error_files counts every file that failed to parse or to
\* index.
C21_BatchAccounting ==
    batch.pc = "returned" =>
        /\ batch.stats.processed_files + batch.stats.error_files
              = Len(batch.java_files)
        /\ batch.stats.processed_files = Cardinality(Succeeded(batch))
        /\ batch.stats.error_files
              = Len(batch.java_files) - Cardinality(Succeeded(batch))

\* C29: process_project_async terminates for every max_concurrent_files that
\* AsyncProcessor::new accepts. It never panics; until it has returned, some
\* task can take a step (no deadlock between the permits, the channel and the
\* indexer); and when it returns, every producer task has finished, every
\* sender is dropped, and the indexer has drained the channel and exited.
C29_PipelineTerminates ==
    batch.mode = "async" =>
        /\ batch.pc # "panicked"
        /\ batch.pc # "returned" => ENABLED SpecBatchNext
        /\ batch.pc = "returned" =>
              /\ \A t \in 1..Len(batch.tasks) : batch.tasks[t].pc = "done"
              /\ batch.senders = 0
              /\ batch.channel = <<>>
              /\ batch.indexer.pc = "done"

\* The chunk tasks that hold a semaphore permit: between acquire() and the
\* end of the loop iteration that drops _permit.
Holders(b) ==
    {t \in 1..Len(b.tasks) : b.tasks[t].pc \in {"parse", "send", "count"}}

\* C30: during process_project_async at most max_concurrent_files files are
\* being processed under a semaphore permit at any moment, however many chunk
\* tasks were spawned; the indexer task indexes each file it is sent at most
\* once, and when the call returns it has indexed every file that was parsed
\* and could be indexed.
C30_BoundedParsing ==
    batch.mode = "async" =>
        /\ Cardinality(Holders(batch)) <= batch.max_concurrent_files
        /\ Cardinality(Holders(batch)) + batch.permits = batch.max_concurrent_files
        /\ \A i, j \in 1..Len(batch.indexed) :
              i # j => batch.indexed[i] # batch.indexed[j]
        /\ batch.pc = "returned" =>
              {batch.indexed[i] : i \in 1..Len(batch.indexed)} = Succeeded(batch)

\* Three chunk tasks over two permits: two of them hold a permit and the third
\* waits in acquire().
C30_Witness ==
    /\ batch.mode = "async"
    /\ batch.max_concurrent_files = 2
    /\ Len(batch.tasks) = 3
    /\ Cardinality(Holders(batch)) = 2
    /\ batch.permits = 0
    /\ \E t \in 1..Len(batch.tasks) : batch.tasks[t].pc = "acquire"

(***************************************************************************)
(* Property of IndexManager::search (checked under SpecLimit)              *)
(***************************************************************************)
\* C22: IndexManager::search returns at most query.limit results, and at most
\* 100 results when query.limit is None, however many documents match.
C22_AtMostLimitResults ==
    \A r \in Readers :
        (rtask[r].pc = "done" /\ rtask[r].op = "search") =>
            IF IsSome(rtask[r].query.limit)
            THEN Len(rtask[r].results) <= rtask[r].query.limit[1]
            ELSE Len(rtask[r].results) <= 100

\* A search without a limit has returned 100 results from a searcher that
\* holds 101 matching documents.
C22_Witness ==
    \E r \in Readers :
        /\ rtask[r].pc = "done" /\ rtask[r].op = "search"
        /\ rtask[r].query.limit = None
        /\ Cardinality({e \in rtask[r].searcher :
                           QueryMatches(rtask[r].query, DocOf(e))}) = 101
        /\ Len(rtask[r].results) = 100

(***************************************************************************)
(* Properties of the graphs (checked under SpecFocus and SpecGraph)        *)
(***************************************************************************)
\* The ids at undirected distance at most d from id along the given edges.
RECURSIVE Within(_, _, _)
Within(edges, id, d) ==
    IF d = 0 THEN {id}
    ELSE LET near == Within(edges, id, d - 1)
         IN  near \cup {edges[i].to : i \in {j \in 1..Len(edges) : edges[j].from \in near}}
                  \cup {edges[i].from : i \in {j \in 1..Len(edges) : edges[j].to \in near}}

\* C25: generate_focused_graph returns exactly the nodes whose undirected
\* distance from the focus node is at most depth, and every edge of the graph
\* whose two endpoints are both among those nodes.
C25_FocusedGraphWithinDepth ==
    graph.pc = "focused" =>
        LET near == Within(graph.input.edges, graph.focus_node, graph.depth)
        IN  /\ graph.focused.nodes
                 = SelectSeq(graph.input.nodes, LAMBDA node : node.id \in near)
            /\ graph.focused.edges
                 = SelectSeq(graph.input.edges,
                             LAMBDA edge : edge.from \in near /\ edge.to \in near)

\* The types named in a reference, and the references as undirected edges.
Referenced(refs) == {r[1] : r \in refs} \cup {r[2] : r \in refs}

\* The types linked to t by a chain of references, t included.
Linked(refs, t) ==
    LET pairs == CHOOSE seq \in [1..Cardinality(refs) -> refs] :
                     \A r \in refs : \E i \in 1..Cardinality(refs) : seq[i] = r
    IN  Within([i \in 1..Cardinality(refs) |-> GraphEdge(pairs[i][1], pairs[i][2])],
               t, Cardinality(refs))

\* C26: get_components returns the connected components of the references
\* taken as undirected: every referenced type is in exactly one component,
\* and two referenced types share a component iff a chain of references links
\* them.
C26_ComponentsOfReferences ==
    graph.pc = "components" =>
        LET refs  == graph.type_references
            comps == graph.components
        IN  /\ \A t \in Referenced(refs) :
                  Cardinality({i \in 1..Len(comps) : t \in comps[i]}) = 1
            /\ \A t, u \in Referenced(refs) :
                  (\E i \in 1..Len(comps) : t \in comps[i] /\ u \in comps[i])
                      <=> u \in Linked(refs, t)
====
